---- MODULE Spec2Model ----
(***************************************************************************)
(* Model of the checkout API: PaymentService and ProductService running    *)
(* against a PostgreSQL store (READ COMMITTED) through Database.transaction *)
(* and Database.query.                                                      *)
(*                                                                          *)
(* Every SQL statement of a service method is one atomic step.  A           *)
(* transaction's writes stay in its pending set until COMMIT; other         *)
(* transactions read the committed tables.  A row written or selected FOR   *)
(* UPDATE is locked until the transaction ends; a statement that needs a    *)
(* row locked by another transaction is not enabled until the lock is       *)
(* released, and then works on the latest committed version of the row.     *)
(***************************************************************************)
EXTENDS Integers, Sequences, FiniteSets, TLC

\* ---------------------------------------------------------------- bounds
NumProcs == 2
MaxCalls == 3
MaxOps == 2
MaxRows == 2
MaxStock == 1
NumProducts == 2
NumKeys == 2

Procs == 1..NumProcs
ProductIds == 1..NumProducts
Keys == 1..NumKeys
StockInputs == (0 - 1)..MaxStock

\* ------------------------------------------------------------ enumerations
INITIALIZED == "initialized"
USER_SET == "user_set"
PAYMENT_PROCESSING == "payment_processing"
COMPLETE == "complete"

PaymentStatus == {INITIALIZED, USER_SET, PAYMENT_PROCESSING, COMPLETE}

CREDIT_CARD == "credit_card"
PAYPAL == "paypal"

VALID_STATUS_TRANSITIONS_mut(currentStatus) ==
    CASE currentStatus = INITIALIZED -> <<USER_SET, COMPLETE>>
      [] currentStatus = USER_SET -> <<PAYMENT_PROCESSING>>
      [] currentStatus = PAYMENT_PROCESSING -> <<COMPLETE>>
      [] OTHER -> <<>>

\* PaymentService.VALID_STATUS_TRANSITIONS, as a function of the current status
VALID_STATUS_TRANSITIONS(currentStatus) ==
    CASE currentStatus = INITIALIZED -> <<USER_SET>>
      [] currentStatus = USER_SET -> <<PAYMENT_PROCESSING>>
      [] currentStatus = PAYMENT_PROCESSING -> <<COMPLETE>>
      [] OTHER -> <<>>

\* validTransitions.includes(newStatus)
isValidStatusTransition(currentStatus, newStatus) ==
    \E i \in 1..Len(VALID_STATUS_TRANSITIONS(currentStatus)) :
        VALID_STATUS_TRANSITIONS(currentStatus)[i] = newStatus

\* ------------------------------------------------------------------ schema
StockLevelCheck_mut(stock_level) == TRUE

\* products.stock_level INTEGER NOT NULL CHECK (stock_level >= 0)
StockLevelCheck(stock_level) == stock_level >= 0

\* products.price DECIMAL(10, 2) NOT NULL CHECK (price >= 0)
PriceCheck(price) == price >= 0

IdempotencyKeyUnique_mut(rows, key) == TRUE

\* payments.idempotency_key VARCHAR(255) NOT NULL UNIQUE
IdempotencyKeyUnique(rows, key) ==
    \A id \in DOMAIN rows : rows[id].idempotency_key # key

\* ------------------------------------------------------------------- state
VARIABLES
    products,    \* committed products table: id -> [price, stock_level]
    payments,    \* committed payments table: id -> payment row
    nextId,      \* next payment id the store hands out
    pc,          \* per caller: the statement it executes next
    req,         \* per caller: the service call in progress
    product,     \* per caller: rows of the SELECT ... FOR UPDATE
    payment,     \* per caller: rows of the payment SELECT
    ret,         \* per caller: rows the unit of work returns
    err,         \* per caller: the error the unit of work raised
    locks,       \* per caller: product rows its transaction has locked
    pendProd,    \* per caller: uncommitted product row write
    pendPay,     \* per caller: uncommitted payment row write
    result,      \* per caller: outcome of its last finished call
    calls,       \* number of service calls started
    txn,         \* per caller: transaction statements issued on its client
    clients,     \* per caller: pool clients acquired and released by its call
    initial      \* stock_level of every product in the initial state

vars == <<products, payments, nextId, pc, req, product, payment, ret, err,
          locks, pendProd, pendPay, result, calls, txn, clients, initial>>

NoError == [kind |-> "none", detail |-> <<>>]
NoRequest == [op |-> "none"]

\* no error object
NoErrorObject == [name |-> "", message |-> <<>>, code |-> "", statusCode |-> 0]

NoResult ==
    [req |-> NoRequest, kind |-> "none", rows |-> <<>>, detail |-> <<>>,
     error |-> NoErrorObject]

\* a row of the payments table
PaymentRow(id, amount, status, paymentData) ==
    [id |-> id, amount |-> amount, status |-> status,
     product_id |-> paymentData.product_id,
     payment_method |-> paymentData.payment_method,
     user_id |-> paymentData.user_id,
     idempotency_key |-> paymentData.idempotency_key]

PaymentMethod == {CREDIT_CARD, PAYPAL}

UserIds == {"user-1", "user-2"}

\* a CreatePaymentRequest with every field given
PaymentData(product_id, payment_method, user_id, key) ==
    [product_id |-> product_id, payment_method |-> payment_method,
     user_id |-> user_id, idempotency_key |-> key]

\* a CreatePaymentRequest
CreatePaymentRequest(product_id, key) ==
    [product_id |-> product_id, payment_method |-> CREDIT_CARD,
     user_id |-> "user-1", idempotency_key |-> key]

\* price of the seeded products
SeedPrice(id) == 10 * id

\* a payment that an earlier createPayment on product 1 left behind
SeedPayment(status) ==
    PaymentRow(1, SeedPrice(1), status, CreatePaymentRequest(1, 1))

Locals ==
    /\ pc = [p \in Procs |-> "idle"]
    /\ req = [p \in Procs |-> NoRequest]
    /\ product = [p \in Procs |-> <<>>]
    /\ payment = [p \in Procs |-> <<>>]
    /\ ret = [p \in Procs |-> <<>>]
    /\ err = [p \in Procs |-> NoError]
    /\ locks = [p \in Procs |-> {}]
    /\ pendProd = [p \in Procs |-> <<>>]
    /\ pendPay = [p \in Procs |-> <<>>]
    /\ result = [p \in Procs |-> NoResult]
    /\ calls = 0
    /\ txn = [p \in Procs |-> <<>>]
    /\ clients = [p \in Procs |-> [acquired |-> 0, released |-> 0]]

\* the store after setup: product 1 with some stock, possibly product 2,
\* possibly one payment on product 1 in any status
Init ==
    /\ \E n \in 0..MaxStock, two \in BOOLEAN :
          products = [id \in (IF two THEN {1, 2} ELSE {1}) |->
                        [price |-> SeedPrice(id),
                         stock_level |-> IF id = 1 THEN n ELSE 1]]
    /\ \/ payments = <<>> /\ nextId = 1
       \/ \E s \in PaymentStatus :
             payments = (1 :> SeedPayment(s)) /\ nextId = 2
    /\ initial = [id \in DOMAIN products |-> products[id].stock_level]
    /\ Locals

\* the store with products only, no payment yet
InitEmpty ==
    /\ \E n \in 0..MaxStock, two \in BOOLEAN :
          products = [id \in (IF two THEN {1, 2} ELSE {1}) |->
                        [price |-> SeedPrice(id),
                         stock_level |-> IF id = 1 THEN n ELSE 1]]
    /\ payments = <<>>
    /\ nextId = 1
    /\ initial = [id \in DOMAIN products |-> products[id].stock_level]
    /\ Locals

\* ------------------------------------------------------------ store access
ProductLockedByOther_mut(p, id) == FALSE

\* another transaction holds the lock of product row id
ProductLockedByOther(p, id) == \E q \in Procs \ {p} : id \in locks[q]

\* another transaction has an uncommitted write on payment row id
PaymentLockedByOther(p, id) ==
    \E q \in Procs \ {p} : pendPay[q] # <<>> /\ pendPay[q][1].row.id = id

KeyWriteInFlight_mut(p, key) == FALSE

\* another transaction has an uncommitted write on a payment row carrying key
KeyWriteInFlight(p, key) ==
    \E q \in Procs \ {p} :
        pendPay[q] # <<>> /\ pendPay[q][1].row.idempotency_key = key

SelectByKey_mut(key) == <<>>

\* SELECT * FROM payments WHERE idempotency_key = $1
SelectByKey(key) ==
    LET ids == {id \in DOMAIN payments : payments[id].idempotency_key = key}
    IN IF ids = {} THEN <<>>
       ELSE <<payments[CHOOSE id \in ids : \A other \in ids : id <= other]>>

\* SELECT * FROM payments WHERE id = $1
SelectPayment(id) ==
    IF id \in DOMAIN payments THEN <<payments[id]>> ELSE <<>>

\* SELECT ... FROM products WHERE id = $1
SelectProduct(id) ==
    IF id \in DOMAIN products THEN <<products[id]>> ELSE <<>>

Begin(p, r) ==
    /\ pc[p] = "idle"
    /\ req' = [req EXCEPT ![p] = r]
    /\ calls' = calls + 1
    /\ txn' = [txn EXCEPT ![p] = <<"BEGIN">>]
    /\ clients' = [clients EXCEPT ![p] = [acquired |-> 1, released |-> 0]]
    /\ UNCHANGED <<products, payments, nextId, product, payment, ret, err,
                   locks, pendProd, pendPay, result, initial>>

\* the unit of work raises: control goes to the catch block of transaction()
Throw(p, kind, detail) ==
    /\ err' = [err EXCEPT ![p] = [kind |-> kind, detail |-> detail]]
    /\ pc' = [pc EXCEPT ![p] = "rollback"]


\* the end of a call that leaves the row locks of its transaction in place
Finish_mut(p, outcome) ==
    /\ result' = [result EXCEPT ![p] = outcome]
    /\ pc' = [pc EXCEPT ![p] = "idle"]
    /\ req' = [req EXCEPT ![p] = NoRequest]
    /\ product' = [product EXCEPT ![p] = <<>>]
    /\ payment' = [payment EXCEPT ![p] = <<>>]
    /\ ret' = [ret EXCEPT ![p] = <<>>]
    /\ err' = [err EXCEPT ![p] = NoError]
    /\ locks' = locks
    /\ pendProd' = [pendProd EXCEPT ![p] = <<>>]
    /\ pendPay' = [pendPay EXCEPT ![p] = <<>>]
    /\ clients' = [clients EXCEPT ![p].released = @ + 1]

\* reset of a caller's locals when its call has finished
Finish(p, outcome) ==
    /\ result' = [result EXCEPT ![p] = outcome]
    /\ pc' = [pc EXCEPT ![p] = "idle"]
    /\ req' = [req EXCEPT ![p] = NoRequest]
    /\ product' = [product EXCEPT ![p] = <<>>]
    /\ payment' = [payment EXCEPT ![p] = <<>>]
    /\ ret' = [ret EXCEPT ![p] = <<>>]
    /\ err' = [err EXCEPT ![p] = NoError]
    /\ locks' = [locks EXCEPT ![p] = {}]
    /\ pendProd' = [pendProd EXCEPT ![p] = <<>>]
    /\ pendPay' = [pendPay EXCEPT ![p] = <<>>]
    /\ clients' = [clients EXCEPT ![p].released = @ + 1]

\* ------------------------------------------------------------ error objects
\* the kinds of failure the store raises; detail[1] is their SQLSTATE
StorageKinds == {"UniqueViolation", "ForeignKeyViolation", "CheckViolation"}

\* the text of the message for a failure, as the pieces it is put together
\* from (template literals and join(', ') concatenate)
MessageText(e) ==
    <<e.kind>> \o
    (CASE e.kind = "InvalidTransition" ->
             <<e.detail[1], e.detail[2]>> \o e.detail[3]
       [] e.kind \in {"OutOfStock", "InvalidStock"} -> <<ToString(e.detail[1])>>
       [] OTHER -> e.detail)

\* new Error(message): an Error has no code and no statusCode
NewError(message) ==
    [name |-> "Error", message |-> message, code |-> "", statusCode |-> 0]

\* the error the store's driver raises: it carries the SQLSTATE in code
DatabaseError(code, message) ==
    [name |-> "error", message |-> message, code |-> code, statusCode |-> 0]

\* the object thrown for the failure e: throw new Error(`...`) in the
\* services, the driver's error for a constraint violation
ThrownError(e) ==
    IF e.kind \in StorageKinds
    THEN DatabaseError(e.detail[1], MessageText(e))
    ELSE NewError(MessageText(e))

\* ------------------------------------------------ Database.transaction
enhancedError_mut(error) == error

\* new Error(`Database transaction failed: ${error.message}. All changes
\* have been rolled back.`), with the stack of the original
enhancedError(error) ==
    NewError(<<"Database transaction failed: ">> \o error.message \o
             <<". All changes have been rolled back.">>)

\* the committed products table after the pending product write w
ApplyProductWrite(table, w) ==
    IF w = <<>> \/ w[1].id \notin DOMAIN table THEN table
    ELSE [table EXCEPT ![w[1].id] = w[1].row]

\* a DELETE that leaves the row in the table
ApplyPaymentWrite_mut(table, w) ==
    IF w = <<>> THEN table
    ELSE IF w[1].kind = "insert" THEN table @@ (w[1].row.id :> w[1].row)
    ELSE IF w[1].row.id \notin DOMAIN table THEN table
    ELSE IF w[1].kind = "update" THEN [table EXCEPT ![w[1].row.id] = w[1].row]
    ELSE table

\* the committed payments table after the pending payment write w
ApplyPaymentWrite(table, w) ==
    IF w = <<>> THEN table
    ELSE IF w[1].kind = "insert" THEN table @@ (w[1].row.id :> w[1].row)
    ELSE IF w[1].row.id \notin DOMAIN table THEN table
    ELSE IF w[1].kind = "update" THEN [table EXCEPT ![w[1].row.id] = w[1].row]
    ELSE [id \in DOMAIN table \ {w[1].row.id} |-> table[id]]

\* await client.query('COMMIT'); return result   (finally: client.release())
Transaction_Commit(p) ==
    /\ pc[p] = "commit"
    /\ products' = ApplyProductWrite(products, pendProd[p])
    /\ payments' = ApplyPaymentWrite(payments, pendPay[p])
    /\ Finish(p, [req |-> req[p], kind |-> "ok", rows |-> ret[p],
                  detail |-> <<>>, error |-> NoErrorObject])
    /\ txn' = [txn EXCEPT ![p] = Append(@, "COMMIT")]
    /\ UNCHANGED <<nextId, calls, initial>>

\* the catch block issuing COMMIT in place of ROLLBACK
Transaction_Rollback_mut(p) ==
    /\ pc[p] = "rollback"
    /\ products' = ApplyProductWrite(products, pendProd[p])
    /\ payments' = ApplyPaymentWrite(payments, pendPay[p])
    /\ Finish(p, [req |-> req[p], kind |-> err[p].kind, rows |-> <<>>,
                  detail |-> err[p].detail,
                  error |-> enhancedError(ThrownError(err[p]))])
    /\ txn' = [txn EXCEPT ![p] = Append(@, "COMMIT")]
    /\ UNCHANGED <<nextId, calls, initial>>

\* catch: await client.query('ROLLBACK'); throw enhancedError
Transaction_Rollback(p) ==
    /\ pc[p] = "rollback"
    /\ Finish(p, [req |-> req[p], kind |-> err[p].kind, rows |-> <<>>,
                  detail |-> err[p].detail,
                  error |-> enhancedError(ThrownError(err[p]))])
    /\ txn' = [txn EXCEPT ![p] = Append(@, "ROLLBACK")]
    /\ UNCHANGED <<products, payments, nextId, calls, initial>>

\* ------------------------------------------- PaymentService.createPayment
\* db.transaction(...): a client is acquired and BEGIN is issued
CreatePayment_Call(p, paymentData) ==
    /\ Begin(p, [op |-> "createPayment", paymentData |-> paymentData])
    /\ pc' = [pc EXCEPT ![p] = "cp_existing"]

\* the lookup whose result is ignored: the call goes on to the product
CreatePayment_SelectExisting_mut(p) ==
    /\ pc[p] = "cp_existing"
    /\ pc' = [pc EXCEPT ![p] = "cp_lock"]
    /\ UNCHANGED <<products, payments, nextId, req, product, payment, err, ret,
                   locks, pendProd, pendPay, result, calls, txn, clients, initial>>

\* the lookup matching on the key and the product of the request
CreatePayment_SelectExisting_mut2(p) ==
    /\ pc[p] = "cp_existing"
    /\ LET existingPayment == SelectByKey(req[p].paymentData.idempotency_key)
       IN IF /\ Len(existingPayment) > 0
             /\ existingPayment[1].product_id = req[p].paymentData.product_id
          THEN /\ ret' = [ret EXCEPT ![p] = existingPayment]
               /\ pc' = [pc EXCEPT ![p] = "commit"]
          ELSE /\ pc' = [pc EXCEPT ![p] = "cp_lock"]
               /\ UNCHANGED ret
    /\ UNCHANGED <<products, payments, nextId, req, product, payment, err,
                   locks, pendProd, pendPay, result, calls, txn, clients, initial>>

\* SELECT * FROM payments WHERE idempotency_key = $1; return rows[0] if any
CreatePayment_SelectExisting(p) ==
    /\ pc[p] = "cp_existing"
    /\ LET existingPayment == SelectByKey(req[p].paymentData.idempotency_key)
       IN IF Len(existingPayment) > 0
          THEN /\ ret' = [ret EXCEPT ![p] = existingPayment]
               /\ pc' = [pc EXCEPT ![p] = "commit"]
          ELSE /\ pc' = [pc EXCEPT ![p] = "cp_lock"]
               /\ UNCHANGED ret
    /\ UNCHANGED <<products, payments, nextId, req, product, payment, err,
                   locks, pendProd, pendPay, result, calls, txn, clients, initial>>

OutOfStock_mut(stock_level) == stock_level < 0

\* if (product.stock_level <= 0) throw out of stock
OutOfStock(stock_level) == stock_level <= 0

\* the SELECT without FOR UPDATE: the row is read and no lock is taken
CreatePayment_SelectForUpdate_mut(p) ==
    /\ pc[p] = "cp_lock"
    /\ LET productResult == SelectProduct(req[p].paymentData.product_id)
       IN IF Len(productResult) = 0
          THEN /\ Throw(p, "NotFound", <<"product">>)
               /\ UNCHANGED product
          ELSE /\ product' = [product EXCEPT ![p] = productResult]
               /\ IF OutOfStock(productResult[1].stock_level)
                  THEN Throw(p, "OutOfStock", <<productResult[1].stock_level>>)
                  ELSE /\ pc' = [pc EXCEPT ![p] = "cp_stock"]
                       /\ UNCHANGED err
    /\ UNCHANGED <<products, payments, nextId, req, payment, ret, locks,
                   pendProd, pendPay, result, calls, txn, clients, initial>>

\* SELECT ... FROM products WHERE id = $1 FOR UPDATE, then the two checks
CreatePayment_SelectForUpdate(p) ==
    /\ pc[p] = "cp_lock"
    /\ ~ProductLockedByOther(p, req[p].paymentData.product_id)
    /\ LET productResult == SelectProduct(req[p].paymentData.product_id)
       IN IF Len(productResult) = 0
          THEN /\ Throw(p, "NotFound", <<"product">>)
               /\ UNCHANGED <<product, locks>>
          ELSE /\ locks' = [locks EXCEPT
                              ![p] = @ \cup {req[p].paymentData.product_id}]
               /\ product' = [product EXCEPT ![p] = productResult]
               /\ IF OutOfStock(productResult[1].stock_level)
                  THEN Throw(p, "OutOfStock", <<productResult[1].stock_level>>)
                  ELSE /\ pc' = [pc EXCEPT ![p] = "cp_stock"]
                       /\ UNCHANGED err
    /\ UNCHANGED <<products, payments, nextId, req, payment, ret,
                   pendProd, pendPay, result, calls, txn, clients, initial>>

\* WHERE id = $1 AND stock_level > 0
ReserveGuard(stock_level) == stock_level > 0

StockAfterReserve_mut(stock_level) == stock_level

\* SET stock_level = stock_level - 1
StockAfterReserve(stock_level) == stock_level - 1

\* the decrement sent through db.query: it commits on its own at once
CreatePayment_UpdateStock_mut(p) ==
    LET id == req[p].paymentData.product_id IN
    /\ pc[p] = "cp_stock"
    /\ IF id \in DOMAIN products /\ ReserveGuard(products[id].stock_level)
       THEN /\ products' = [products EXCEPT ![id].stock_level =
                               StockAfterReserve(@)]
            /\ pc' = [pc EXCEPT ![p] = "cp_insert"]
            /\ UNCHANGED err
       ELSE /\ Throw(p, "StockDepleted", <<>>)
            /\ UNCHANGED products
    /\ UNCHANGED <<payments, nextId, req, product, payment, ret, locks,
                   pendProd, pendPay, result, calls, txn, clients, initial>>

\* UPDATE products SET stock_level = stock_level - 1 WHERE id = $1 AND
\* stock_level > 0 RETURNING *; zero rows: throw no longer available
CreatePayment_UpdateStock(p) ==
    LET id == req[p].paymentData.product_id IN
    /\ pc[p] = "cp_stock"
    /\ ~ProductLockedByOther(p, id)
    /\ IF id \in DOMAIN products /\ ReserveGuard(products[id].stock_level)
       THEN IF StockLevelCheck(StockAfterReserve(products[id].stock_level))
            THEN /\ pendProd' = [pendProd EXCEPT ![p] =
                        <<[id |-> id,
                           row |-> [products[id] EXCEPT !.stock_level =
                                       StockAfterReserve(@)]]>>]
                 /\ locks' = [locks EXCEPT ![p] = @ \cup {id}]
                 /\ pc' = [pc EXCEPT ![p] = "cp_insert"]
                 /\ UNCHANGED err
            ELSE /\ Throw(p, "CheckViolation", <<"23514">>)
                 /\ UNCHANGED <<pendProd, locks>>
       ELSE /\ Throw(p, "StockDepleted", <<>>)
            /\ UNCHANGED <<pendProd, locks>>
    /\ UNCHANGED <<products, payments, nextId, req, product, payment, ret,
                   pendPay, result, calls, txn, clients, initial>>

InsertValues_mut(id, product_row, paymentData) ==
    PaymentRow(id, product_row.stock_level, USER_SET, paymentData)

\* VALUES ($1 = product.price, $2 = PaymentStatus.INITIALIZED, $3..$6 from
\* paymentData)
InsertValues(id, product_row, paymentData) ==
    PaymentRow(id, product_row.price, INITIALIZED, paymentData)

\* INSERT INTO payments (...) VALUES (product.price, 'initialized', ...)
\* RETURNING *; the store enforces the key's uniqueness and the foreign key
CreatePayment_Insert(p) ==
    LET paymentData == req[p].paymentData
        row == InsertValues(nextId, product[p][1], paymentData)
    IN
    /\ pc[p] = "cp_insert"
    /\ ~KeyWriteInFlight(p, paymentData.idempotency_key)
    /\ IF ~IdempotencyKeyUnique(payments, paymentData.idempotency_key)
       THEN /\ Throw(p, "UniqueViolation", <<"23505">>)
            /\ UNCHANGED <<pendPay, ret, nextId>>
       ELSE IF paymentData.product_id \notin DOMAIN products
       THEN /\ Throw(p, "ForeignKeyViolation", <<"23503">>)
            /\ UNCHANGED <<pendPay, ret, nextId>>
       ELSE /\ pendPay' = [pendPay EXCEPT ![p] =
                             <<[kind |-> "insert", row |-> row]>>]
            /\ ret' = [ret EXCEPT ![p] = <<row>>]
            /\ nextId' = nextId + 1
            /\ pc' = [pc EXCEPT ![p] = "commit"]
            /\ UNCHANGED err
    /\ UNCHANGED <<products, payments, req, product, payment, locks,
                   pendProd, result, calls, txn, clients, initial>>

createPayment(p) ==
    \/ CreatePayment_SelectExisting(p)
    \/ CreatePayment_SelectForUpdate(p)
    \/ CreatePayment_UpdateStock(p)
    \/ CreatePayment_Insert(p)

\* ------------------------------------- PaymentService.updatePaymentStatus
UpdatePaymentStatus_Call(p, paymentId, newStatus) ==
    /\ Begin(p, [op |-> "updatePaymentStatus", paymentId |-> paymentId,
                 status |-> newStatus])
    /\ pc' = [pc EXCEPT ![p] = "us_select"]

InvalidTransitionMessage_mut(currentStatus, newStatus) ==
    <<currentStatus, newStatus, VALID_STATUS_TRANSITIONS(newStatus)>>

\* Invalid payment status transition from '${currentStatus}' to
\* '${newStatus}'. Valid transitions from '${currentStatus}' are:
\* ${validTransitions.join(', ')}
InvalidTransitionMessage(currentStatus, newStatus) ==
    <<currentStatus, newStatus, VALID_STATUS_TRANSITIONS(currentStatus)>>

\* SELECT * FROM payments WHERE id = $1, then the transition is validated
UpdatePaymentStatus_Select(p) ==
    /\ pc[p] = "us_select"
    /\ LET currentPayment == SelectPayment(req[p].paymentId)
       IN IF Len(currentPayment) = 0
          THEN /\ Throw(p, "NotFound", <<"payment">>)
               /\ UNCHANGED payment
          ELSE /\ payment' = [payment EXCEPT ![p] = currentPayment]
               /\ IF ~isValidStatusTransition(currentPayment[1].status,
                                              req[p].status)
                  THEN Throw(p, "InvalidTransition",
                             InvalidTransitionMessage(
                                 currentPayment[1].status, req[p].status))
                  ELSE /\ pc' = [pc EXCEPT ![p] = "us_update"]
                       /\ UNCHANGED err
    /\ UNCHANGED <<products, payments, nextId, req, product, ret, locks,
                   pendProd, pendPay, result, calls, txn, clients, initial>>

\* the update that also gives a unit back to the payment's product
UpdatePaymentStatus_Update_mut(p) ==
    LET id == req[p].paymentId IN
    /\ pc[p] = "us_update"
    /\ ~PaymentLockedByOther(p, id)
    /\ IF id \in DOMAIN payments
       THEN LET row == [payments[id] EXCEPT !.status = req[p].status]
                pid == payments[id].product_id
            IN /\ pendPay' = [pendPay EXCEPT ![p] =
                                <<[kind |-> "update", row |-> row]>>]
               /\ pendProd' = [pendProd EXCEPT ![p] =
                      <<[id |-> pid,
                         row |-> [products[pid] EXCEPT !.stock_level = @ + 1]]>>]
               /\ ret' = [ret EXCEPT ![p] = <<row>>]
       ELSE /\ ret' = [ret EXCEPT ![p] = <<>>]
            /\ UNCHANGED <<pendPay, pendProd>>
    /\ pc' = [pc EXCEPT ![p] = "commit"]
    /\ UNCHANGED <<products, payments, nextId, req, product, payment, err,
                   locks, result, calls, txn, clients, initial>>

\* UPDATE payments SET status = $1 WHERE id = $2 RETURNING *; return rows[0]
UpdatePaymentStatus_Update(p) ==
    LET id == req[p].paymentId IN
    /\ pc[p] = "us_update"
    /\ ~PaymentLockedByOther(p, id)
    /\ IF id \in DOMAIN payments
       THEN LET row == [payments[id] EXCEPT !.status = req[p].status]
            IN /\ pendPay' = [pendPay EXCEPT ![p] =
                                <<[kind |-> "update", row |-> row]>>]
               /\ ret' = [ret EXCEPT ![p] = <<row>>]
       ELSE /\ ret' = [ret EXCEPT ![p] = <<>>]
            /\ UNCHANGED pendPay
    /\ pc' = [pc EXCEPT ![p] = "commit"]
    /\ UNCHANGED <<products, payments, nextId, req, product, payment, err,
                   locks, pendProd, result, calls, txn, clients, initial>>

updatePaymentStatus(p) ==
    \/ UpdatePaymentStatus_Select(p)
    \/ UpdatePaymentStatus_Update(p)

\* ------------------------------------------- PaymentService.cancelPayment
CancelPayment_Call(p, paymentId) ==
    /\ Begin(p, [op |-> "cancelPayment", paymentId |-> paymentId])
    /\ pc' = [pc EXCEPT ![p] = "cn_select"]

Cancelable_mut(status) == status # COMPLETE

\* if (payment.status !== PaymentStatus.INITIALIZED) throw
Cancelable(status) == status = INITIALIZED

\* SELECT * FROM payments WHERE id = $1, then the status is checked
CancelPayment_Select(p) ==
    /\ pc[p] = "cn_select"
    /\ LET paymentResult == SelectPayment(req[p].paymentId)
       IN IF Len(paymentResult) = 0
          THEN /\ Throw(p, "NotFound", <<"payment">>)
               /\ UNCHANGED payment
          ELSE /\ payment' = [payment EXCEPT ![p] = paymentResult]
               /\ IF ~Cancelable(paymentResult[1].status)
                  THEN Throw(p, "NotCancelable", <<paymentResult[1].status>>)
                  ELSE /\ pc' = [pc EXCEPT ![p] = "cn_stock"]
                       /\ UNCHANGED err
    /\ UNCHANGED <<products, payments, nextId, req, product, ret, locks,
                   pendProd, pendPay, result, calls, txn, clients, initial>>

StockAfterRestore_mut(stock_level) == stock_level + 2

\* SET stock_level = stock_level + 1
StockAfterRestore(stock_level) == stock_level + 1

\* the restoration writing an absolute stock value
CancelPayment_RestoreStock_mut(p) ==
    LET id == payment[p][1].product_id IN
    /\ pc[p] = "cn_stock"
    /\ ~ProductLockedByOther(p, id)
    /\ IF id \in DOMAIN products
       THEN /\ pendProd' = [pendProd EXCEPT ![p] =
                   <<[id |-> id,
                      row |-> [products[id] EXCEPT !.stock_level = 1]]>>]
            /\ locks' = [locks EXCEPT ![p] = @ \cup {id}]
       ELSE UNCHANGED <<pendProd, locks>>
    /\ pc' = [pc EXCEPT ![p] = "cn_delete"]
    /\ UNCHANGED <<products, payments, nextId, req, product, payment, ret,
                   err, pendPay, result, calls, txn, clients, initial>>

\* UPDATE products SET stock_level = stock_level + 1 WHERE id = $1
CancelPayment_RestoreStock(p) ==
    LET id == payment[p][1].product_id IN
    /\ pc[p] = "cn_stock"
    /\ ~ProductLockedByOther(p, id)
    /\ IF id \in DOMAIN products
       THEN /\ pendProd' = [pendProd EXCEPT ![p] =
                   <<[id |-> id,
                      row |-> [products[id] EXCEPT !.stock_level =
                                  StockAfterRestore(@)]]>>]
            /\ locks' = [locks EXCEPT ![p] = @ \cup {id}]
       ELSE UNCHANGED <<pendProd, locks>>
    /\ pc' = [pc EXCEPT ![p] = "cn_delete"]
    /\ UNCHANGED <<products, payments, nextId, req, product, payment, ret,
                   err, pendPay, result, calls, txn, clients, initial>>

\* the cancellation without its DELETE statement
CancelPayment_Delete_mut(p) ==
    /\ pc[p] = "cn_delete"
    /\ ret' = [ret EXCEPT ![p] = payment[p]]
    /\ pc' = [pc EXCEPT ![p] = "commit"]
    /\ UNCHANGED <<products, payments, nextId, req, product, payment, err,
                   locks, pendProd, pendPay, result, calls, txn, clients, initial>>

\* DELETE FROM payments WHERE id = $1; return payment
CancelPayment_Delete(p) ==
    LET id == req[p].paymentId IN
    /\ pc[p] = "cn_delete"
    /\ ~PaymentLockedByOther(p, id)
    /\ IF id \in DOMAIN payments
       THEN pendPay' = [pendPay EXCEPT ![p] =
                          <<[kind |-> "delete", row |-> payments[id]]>>]
       ELSE UNCHANGED pendPay
    /\ ret' = [ret EXCEPT ![p] = payment[p]]
    /\ pc' = [pc EXCEPT ![p] = "commit"]
    /\ UNCHANGED <<products, payments, nextId, req, product, payment, err,
                   locks, pendProd, result, calls, txn, clients, initial>>

cancelPayment(p) ==
    \/ CancelPayment_Select(p)
    \/ CancelPayment_RestoreStock(p)
    \/ CancelPayment_Delete(p)

\* ---------------------------------------------------------- ProductService
\* a db.query statement: it runs in its own transaction and finishes at once
Query(p, r, kind, rows, detail) ==
    /\ pc[p] = "idle"
    /\ calls' = calls + 1
    /\ result' = [result EXCEPT ![p] =
                    [req |-> r, kind |-> kind, rows |-> rows,
                     detail |-> detail,
                     error |-> IF kind = "ok" THEN NoErrorObject
                               ELSE ThrownError([kind |-> kind,
                                                 detail |-> detail])]]
    /\ txn' = [txn EXCEPT ![p] = <<>>]
    /\ clients' = [clients EXCEPT ![p] = [acquired |-> 1, released |-> 1]]
    /\ UNCHANGED <<nextId, pc, req, product, payment, ret, err, locks,
                   pendProd, pendPay>>

\* CHECK constraints of the products table
ProductChecks(row) == StockLevelCheck(row.stock_level) /\ PriceCheck(row.price)

\* ProductService.updateStock: the argument check, then
\* UPDATE products SET stock_level = $1 WHERE id = $2 RETURNING *
updateStock(p, productId, newStockLevel) ==
    LET r == [op |-> "updateStock", productId |-> productId,
              newStockLevel |-> newStockLevel]
    IN
    IF newStockLevel < 0
    THEN /\ Query(p, r, "InvalidStock", <<>>, <<newStockLevel>>)
         /\ UNCHANGED <<products, payments, initial>>
    ELSE /\ ~ProductLockedByOther(p, productId)
         /\ IF productId \notin DOMAIN products
            THEN /\ Query(p, r, "NotFound", <<>>, <<"product">>)
                 /\ UNCHANGED <<products, payments, initial>>
            ELSE LET row == [products[productId] EXCEPT
                               !.stock_level = newStockLevel]
                 IN IF ProductChecks(row)
                    THEN /\ products' = [products EXCEPT ![productId] = row]
                         /\ Query(p, r, "ok", <<row>>, <<>>)
                         /\ UNCHANGED <<payments, initial>>
                    ELSE /\ Query(p, r, "CheckViolation", <<>>, <<"23514">>)
                         /\ UNCHANGED <<products, payments, initial>>

\* the row after the fields given in productData have been assigned
UpdatedProduct(row, productData) ==
    [price |-> IF productData.price # <<>> THEN productData.price[1]
               ELSE row.price,
     stock_level |-> IF productData.stock_level # <<>>
                     THEN productData.stock_level[1] ELSE row.stock_level]

\* ProductService.updateProduct:
\* UPDATE products SET <given fields> WHERE id = $n RETURNING *
updateProduct(p, productId, productData) ==
    LET r == [op |-> "updateProduct", productId |-> productId,
              productData |-> productData]
    IN
    IF productData.price = <<>> /\ productData.stock_level = <<>>
    THEN /\ Query(p, r, "NoFields", <<>>, <<>>)
         /\ UNCHANGED <<products, payments, initial>>
    ELSE /\ ~ProductLockedByOther(p, productId)
         /\ IF productId \notin DOMAIN products
            THEN /\ Query(p, r, "NotFound", <<>>, <<"product">>)
                 /\ UNCHANGED <<products, payments, initial>>
            ELSE LET row == UpdatedProduct(products[productId], productData)
                 IN IF ProductChecks(row)
                    THEN /\ products' = [products EXCEPT ![productId] = row]
                         /\ Query(p, r, "ok", <<row>>, <<>>)
                         /\ UNCHANGED <<payments, initial>>
                    ELSE /\ Query(p, r, "CheckViolation", <<>>, <<"23514">>)
                         /\ UNCHANGED <<products, payments, initial>>

\* the deletion of the product row alone, its payments left behind
deleteProduct_mut(p, productId) ==
    LET r == [op |-> "deleteProduct", productId |-> productId]
    IN
    /\ ~ProductLockedByOther(p, productId)
    /\ IF productId \in DOMAIN products
       THEN /\ products' = [id \in DOMAIN products \ {productId} |->
                              products[id]]
            /\ Query(p, r, "ok", <<>>, <<TRUE>>)
       ELSE /\ Query(p, r, "ok", <<>>, <<FALSE>>)
            /\ UNCHANGED products
    /\ UNCHANGED <<payments, initial>>

\* ProductService.deleteProduct: DELETE FROM products WHERE id = $1, with
\* payments.product_id REFERENCES products(id) ON DELETE CASCADE
deleteProduct(p, productId) ==
    LET r == [op |-> "deleteProduct", productId |-> productId]
        referencing == {id \in DOMAIN payments :
                          payments[id].product_id = productId}
    IN
    /\ ~ProductLockedByOther(p, productId)
    /\ \A id \in referencing : ~PaymentLockedByOther(p, id)
    /\ IF productId \in DOMAIN products
       THEN /\ products' = [id \in DOMAIN products \ {productId} |->
                              products[id]]
            /\ payments' = [id \in DOMAIN payments \ referencing |->
                              payments[id]]
            /\ Query(p, r, "ok", <<>>, <<TRUE>>)
       ELSE /\ Query(p, r, "ok", <<>>, <<FALSE>>)
            /\ UNCHANGED <<products, payments>>
    /\ UNCHANGED initial

\* ProductService.createProduct: INSERT INTO products (...) RETURNING *
createProduct(p, productData) ==
    LET r == [op |-> "createProduct", productData |-> productData]
        unused == ProductIds \ DOMAIN initial
        id == CHOOSE i \in unused : \A other \in unused : i <= other
    IN
    /\ unused # {}
    /\ IF ProductChecks(productData)
       THEN /\ products' = products @@ (id :> productData)
            /\ initial' = initial @@ (id :> productData.stock_level)
            /\ Query(p, r, "ok", <<productData>>, <<id>>)
            /\ UNCHANGED payments
       ELSE /\ Query(p, r, "CheckViolation", <<>>, <<"23514">>)
            /\ UNCHANGED <<products, payments, initial>>

\* -------------------------------- PaymentService.getTotalCompletedPayments
WhereStatus_mut(status) ==
    {id \in DOMAIN payments :
        payments[id].status \in {PAYMENT_PROCESSING, status}}

\* FROM payments WHERE status = $1
WhereStatus(status) ==
    {id \in DOMAIN payments : payments[id].status = status}

RECURSIVE AddAmounts(_)
\* the amounts of the payment rows ids, added up
AddAmounts(ids) ==
    IF ids = {} THEN 0
    ELSE LET id == CHOOSE i \in ids : TRUE
         IN payments[id].amount + AddAmounts(ids \ {id})

\* SUM(amount): NULL over no row
SUM(ids) == IF ids = {} THEN <<>> ELSE <<AddAmounts(ids)>>

\* COALESCE(value, fallback)
COALESCE(value, fallback) == IF value = <<>> THEN fallback ELSE value[1]

\* parseFloat of the DECIMAL text the store returns: the number it denotes
\* (the amounts of the model are whole and far below 2^53)
parseFloat(total) == total

\* SELECT COALESCE(SUM(amount), 0) as total FROM payments WHERE status =
\* 'complete'; return parseFloat(result.rows[0].total)
getTotalCompletedPayments(p) ==
    /\ Query(p, [op |-> "getTotalCompletedPayments"], "ok",
             <<parseFloat(COALESCE(SUM(WhereStatus(COMPLETE)), 0))>>, <<>>)
    /\ UNCHANGED <<products, payments, initial>>

\* ------------------------------------------ PaymentService.getAllPayments
\* FROM payments p JOIN products pr ON p.product_id = pr.id, and
\* WHERE p.status = $1 when a status is given (status is <<>> when it is not)
JoinedPayments(status) ==
    {id \in DOMAIN payments :
        /\ payments[id].product_id \in DOMAIN products
        /\ status = <<>> \/ payments[id].status = status[1]}

OrderByCreatedAtDesc_mut(rows) ==
    \A i \in 1..(Len(rows) - 1) : rows[i].created_at <= rows[i + 1].created_at

\* ORDER BY p.created_at DESC
OrderByCreatedAtDesc(rows) ==
    \A i \in 1..(Len(rows) - 1) : rows[i].created_at >= rows[i + 1].created_at

\* result.rows.map(...): the payment's columns and its product embedded
PaymentWithProduct(id) ==
    LET row == payments[id]
        pr == products[row.product_id]
    IN [id |-> row.id, amount |-> row.amount, status |-> row.status,
        product_id |-> row.product_id, payment_method |-> row.payment_method,
        user_id |-> row.user_id, idempotency_key |-> row.idempotency_key,
        created_at |-> row.created_at,
        product |-> [id |-> row.product_id, name |-> pr.name,
                     description |-> pr.description, price |-> pr.price,
                     stock_level |-> pr.stock_level,
                     created_at |-> row.created_at]]

\* the orders in which the store can return the rows ids
Orderings(ids) ==
    {order \in [1..Cardinality(ids) -> ids] :
        \A i, j \in 1..Cardinality(ids) : order[i] = order[j] => i = j}

\* getAllPayments(status?): one SELECT through db.query
getAllPayments(p, status) ==
    /\ \E order \in Orderings(JoinedPayments(status)) :
          LET rows == [i \in DOMAIN order |-> PaymentWithProduct(order[i])]
          IN /\ OrderByCreatedAtDesc(rows)
             /\ Query(p, [op |-> "getAllPayments", status |-> status], "ok",
                      rows, <<>>)
    /\ UNCHANGED <<products, payments, initial>>

\* ----------------------------------------------------- HTTP boundary
\* errorHandler: the status code and the body sent for an error
errorHandler(error) ==
    LET statusCode == IF error.statusCode = 0 THEN 500 ELSE error.statusCode
        reply(status, message) ==
            [status |-> status,
             body |-> [success |-> FALSE, error |-> message]]
    IN IF error.name = "ValidationError" THEN reply(400, <<"Validation error">>)
       ELSE IF error.name = "CastError" THEN reply(400, <<"Invalid ID format">>)
       ELSE IF error.code = "23505" THEN reply(409, <<"Duplicate entry">>)
       ELSE IF error.code = "23503"
       THEN reply(400, <<"Referenced record not found">>)
       ELSE IF error.code = "23502" THEN reply(400, <<"Required field missing">>)
       ELSE reply(statusCode, error.message)

\* the payment routes: asyncHandler passes a rejection to errorHandler;
\* POST / answers 201, PATCH /:id/status and DELETE /:id/cancel answer 200
router(outcome) ==
    IF outcome.kind = "ok"
    THEN [status |-> IF outcome.req.op = "createPayment" THEN 201 ELSE 200,
          body |-> [success |-> TRUE, data |-> outcome.rows]]
    ELSE errorHandler(outcome.error)

\* ------------------------------------------------------- specifications
PaymentIds == 1..(nextId - 1)
NewPrice == 15

\* the product fields a caller may send
ProductFields ==
    {[price |-> pr, stock_level |-> st] :
        pr \in {<<>>, <<NewPrice>>},
        st \in {<<>>} \cup {<<n>> : n \in StockInputs}}

PaymentCall(p) ==
    \/ \E id \in ProductIds, key \in Keys :
          CreatePayment_Call(p, CreatePaymentRequest(id, key))
    \/ \E id \in PaymentIds, s \in PaymentStatus :
          UpdatePaymentStatus_Call(p, id, s)
    \/ \E id \in PaymentIds \cup {nextId} : CancelPayment_Call(p, id)

ProductCall(p) ==
    \/ \E id \in ProductIds, n \in StockInputs : updateStock(p, id, n)
    \/ \E id \in ProductIds, f \in ProductFields : updateProduct(p, id, f)
    \/ \E id \in ProductIds : deleteProduct(p, id)
    \/ \E n \in StockInputs :
          createProduct(p, [price |-> NewPrice, stock_level |-> n])

Step(p) ==
    \/ createPayment(p)
    \/ updatePaymentStatus(p)
    \/ cancelPayment(p)
    \/ Transaction_Commit(p)
    \/ Transaction_Rollback(p)

\* every operation of both services, any interleaving
Next ==
    \E p \in Procs :
        \/ calls < MaxOps /\ PaymentCall(p)
        \/ calls < MaxOps /\ ProductCall(p)
        \/ Step(p)

Spec == Init /\ [][Next]_vars

\* the payment operations only, any interleaving
NextPay == \E p \in Procs : (calls < MaxCalls /\ PaymentCall(p)) \/ Step(p)

SpecPay == Init /\ [][NextPay]_vars

\* the payment operations under fair scheduling: the store and the event
\* loop run every statement that is not waiting for a lock
NextLive == \E p \in Procs : (calls < MaxOps /\ PaymentCall(p)) \/ Step(p)

SpecLive ==
    /\ Init
    /\ [][NextLive]_vars
    /\ \A p \in Procs : WF_vars(Step(p))

\* one caller creating payments with any product, method, user and key
CallRetry ==
    /\ calls < MaxOps
    /\ \E id \in ProductIds, m \in PaymentMethod, u \in UserIds, key \in Keys :
          CreatePayment_Call(1, PaymentData(id, m, u, key))

NextRetry ==
    \/ CallRetry
    \/ createPayment(1)
    \/ Transaction_Commit(1)
    \/ Transaction_Rollback(1)

SpecRetry == Init /\ [][NextRetry]_vars

\* the payment operations, any interleaving, on a store without payments
SpecFresh == InitEmpty /\ [][NextPay]_vars

\* one caller issuing the payment operations one after the other
NextSeq == (calls < MaxCalls /\ PaymentCall(1)) \/ Step(1)

SpecSeq == Init /\ [][NextSeq]_vars

\* callers that each create one payment on product 1 under their own key
CallDistinct(p) ==
    /\ result[p] = NoResult
    /\ CreatePayment_Call(p, CreatePaymentRequest(1, p))

NextCreate ==
    \E p \in Procs :
        \/ CallDistinct(p)
        \/ createPayment(p)
        \/ Transaction_Commit(p)
        \/ Transaction_Rollback(p)

SpecCreate == InitEmpty /\ [][NextCreate]_vars

\* createPayment calls only, any keys and products, retried and concurrent
CallCreate(p) ==
    /\ calls < MaxCalls
    /\ \E id \in ProductIds, key \in Keys :
          CreatePayment_Call(p, CreatePaymentRequest(id, key))

NextKeys ==
    \E p \in Procs :
        \/ CallCreate(p)
        \/ createPayment(p)
        \/ Transaction_Commit(p)
        \/ Transaction_Rollback(p)

SpecKeys == InitEmpty /\ [][NextKeys]_vars

\* the end-to-end scenario: product 1 with stock 1 and price 10, no payment
InitScenario ==
    /\ \E two \in BOOLEAN :
          products = [id \in (IF two THEN {1, 2} ELSE {1}) |->
                        [price |-> SeedPrice(id), stock_level |-> 1]]
    /\ payments = <<>>
    /\ nextId = 1
    /\ initial = [id \in DOMAIN products |-> products[id].stock_level]
    /\ Locals

\* one caller: create P1 (key 1), create P2 (key 2), cancel P1, create P3
\* (key 3), all on product 1, with any payment method and user
ScenarioCall ==
    \/ /\ calls = 0
       /\ \E m \in PaymentMethod, u \in UserIds :
             CreatePayment_Call(1, PaymentData(1, m, u, 1))
    \/ /\ calls = 1
       /\ \E m \in PaymentMethod, u \in UserIds :
             CreatePayment_Call(1, PaymentData(1, m, u, 2))
    \/ /\ calls = 2
       /\ \E id \in DOMAIN payments :
             /\ payments[id].idempotency_key = 1
             /\ CancelPayment_Call(1, id)
    \/ /\ calls = 3
       /\ \E m \in PaymentMethod, u \in UserIds :
             CreatePayment_Call(1, PaymentData(1, m, u, 3))

NextScenario ==
    \/ ScenarioCall
    \/ createPayment(1)
    \/ cancelPayment(1)
    \/ Transaction_Commit(1)
    \/ Transaction_Rollback(1)

SpecScenario == InitScenario /\ [][NextScenario]_vars

\* the amounts a payment on product 1 can carry
Amounts == {SeedPrice(1), NewPrice}

\* a store holding up to MaxRows payments on product 1, in any statuses
InitTotal ==
    /\ products = (1 :> [price |-> SeedPrice(1), stock_level |-> 0])
    /\ \E n \in 0..MaxRows :
          /\ \E status \in [1..n -> PaymentStatus], amount \in [1..n -> Amounts] :
                payments = [id \in 1..n |->
                              PaymentRow(id, amount[id], status[id],
                                         CreatePaymentRequest(1, id))]
          /\ nextId = n + 1
    /\ initial = [id \in DOMAIN products |-> products[id].stock_level]
    /\ Locals

NextTotal == \E p \in Procs : calls < MaxOps /\ getTotalCompletedPayments(p)

SpecTotal == InitTotal /\ [][NextTotal]_vars

\* a store of two products with names and descriptions and up to MaxRows
\* payments in any statuses, created at any times (equal times included)
InitList ==
    /\ products = [id \in {1, 2} |->
                     [price |-> SeedPrice(id), stock_level |-> id - 1,
                      name |-> <<"name", id>>,
                      description |-> <<"description", id>>]]
    /\ \E n \in 0..MaxRows :
          /\ \E status \in [1..n -> PaymentStatus],
                created_at \in [1..n -> 1..n] :
                payments = [id \in 1..n |->
                              [created_at |-> created_at[id]] @@
                              PaymentRow(id, SeedPrice(1 + (id % 2)), status[id],
                                         CreatePaymentRequest(1 + (id % 2), id))]
          /\ nextId = n + 1
    /\ initial = [id \in DOMAIN products |-> products[id].stock_level]
    /\ Locals

NextList ==
    \E p \in Procs :
        /\ calls < MaxOps
        /\ \/ getAllPayments(p, <<>>)
           \/ \E status \in PaymentStatus : getAllPayments(p, <<status>>)

SpecList == InitList /\ [][NextList]_vars

\* ------------------------------------- Database: clients and failing statements
\* Database.transaction and Database.query with statements that can fail:
\* the connection can be lost at BEGIN, in the unit of work, at COMMIT and
\* at ROLLBACK
Db_Moves(p, label, e, thrown) ==
    /\ pc' = [pc EXCEPT ![p] = label]
    /\ err' = [err EXCEPT ![p] = e]
    /\ ret' = [ret EXCEPT ![p] = thrown]

Db_Outcome(r, e, thrown) ==
    [req |-> r, kind |-> IF e = NoError THEN "ok" ELSE e.kind, rows |-> <<>>,
     detail |-> <<>>,
     error |-> IF thrown = <<>> THEN NoErrorObject ELSE thrown[1]]

\* const client = await this.getClient(): pool.connect() hands out a client
\* or rejects, and then nothing was acquired
Db_getClient(p, r, label) ==
    /\ pc[p] = "idle"
    /\ calls' = calls + 1
    /\ txn' = [txn EXCEPT ![p] = <<>>]
    /\ \E connected \in BOOLEAN :
          IF connected
          THEN /\ clients' = [clients EXCEPT
                                ![p] = [acquired |-> 1, released |-> 0]]
               /\ req' = [req EXCEPT ![p] = r]
               /\ Db_Moves(p, label, NoError, <<>>)
               /\ UNCHANGED result
          ELSE /\ clients' = [clients EXCEPT
                                ![p] = [acquired |-> 0, released |-> 0]]
               /\ result' = [result EXCEPT ![p] =
                    Db_Outcome(r, [kind |-> "ConnectFailed", detail |-> <<>>],
                               <<NewError(<<"ConnectFailed">>)>>)]
               /\ UNCHANGED <<pc, req, err, ret>>
    /\ UNCHANGED <<products, payments, nextId, product, payment, locks,
                   pendProd, pendPay, initial>>

\* a statement on the client: it is appended to the log when it succeeds,
\* and raises the driver's error otherwise
Db_Statement(p, text, failure, next, handler) ==
    /\ \E ok \in BOOLEAN :
          IF ok
          THEN /\ txn' = [txn EXCEPT ![p] = Append(@, text)]
               /\ Db_Moves(p, next, err[p], ret[p])
          ELSE /\ Db_Moves(p, handler, [kind |-> failure, detail |-> <<>>],
                           <<NewError(<<failure>>)>>)
               /\ UNCHANGED txn
    /\ UNCHANGED <<products, payments, nextId, req, product, payment, locks,
                   pendProd, pendPay, result, calls, clients, initial>>

\* await client.query('BEGIN')
Db_Begin(p) ==
    /\ pc[p] = "db_begin"
    /\ Db_Statement(p, "BEGIN", "BeginFailed", "db_callback", "db_catch")

\* const result = await callback(client): the unit of work returns or raises
Db_Callback(p) ==
    /\ pc[p] = "db_callback"
    /\ \E raises \in BOOLEAN :
          IF raises
          THEN Db_Moves(p, "db_catch",
                        [kind |-> "CallbackFailed", detail |-> <<>>],
                        <<NewError(<<"CallbackFailed">>)>>)
          ELSE Db_Moves(p, "db_commit", NoError, <<>>)
    /\ UNCHANGED <<products, payments, nextId, req, product, payment, locks,
                   pendProd, pendPay, result, calls, txn, clients, initial>>

\* await client.query('COMMIT'); return result
Db_Commit(p) ==
    /\ pc[p] = "db_commit"
    /\ Db_Statement(p, "COMMIT", "CommitFailed", "db_finally", "db_catch")

\* catch (error): await client.query('ROLLBACK'), then the enhanced error is
\* thrown; a failing ROLLBACK leaves the catch block with its own error
Db_Catch(p) ==
    /\ pc[p] = "db_catch"
    /\ \E ok \in BOOLEAN :
          IF ok
          THEN /\ txn' = [txn EXCEPT ![p] = Append(@, "ROLLBACK")]
               /\ Db_Moves(p, "db_finally", err[p],
                           <<enhancedError(ret[p][1])>>)
          ELSE /\ Db_Moves(p, "db_finally",
                           [kind |-> "RollbackFailed", detail |-> <<>>],
                           <<NewError(<<"RollbackFailed">>)>>)
               /\ UNCHANGED txn
    /\ UNCHANGED <<products, payments, nextId, req, product, payment, locks,
                   pendProd, pendPay, result, calls, clients, initial>>

\* a release that is skipped when the ROLLBACK has failed
Db_Release_mut(p) ==
    /\ pc[p] = "db_finally"
    /\ result' = [result EXCEPT ![p] = Db_Outcome(req[p], err[p], ret[p])]
    /\ clients' = IF err[p].kind = "RollbackFailed" THEN clients
                  ELSE [clients EXCEPT ![p].released = @ + 1]
    /\ req' = [req EXCEPT ![p] = NoRequest]
    /\ Db_Moves(p, "idle", NoError, <<>>)
    /\ UNCHANGED <<products, payments, nextId, product, payment, locks,
                   pendProd, pendPay, calls, txn, initial>>

\* finally { client.release() } of transaction(), then the result or the
\* error reaches the caller
Db_Release(p) ==
    /\ pc[p] = "db_finally"
    /\ result' = [result EXCEPT ![p] = Db_Outcome(req[p], err[p], ret[p])]
    /\ clients' = [clients EXCEPT ![p].released = @ + 1]
    /\ req' = [req EXCEPT ![p] = NoRequest]
    /\ Db_Moves(p, "idle", NoError, <<>>)
    /\ UNCHANGED <<products, payments, nextId, product, payment, locks,
                   pendProd, pendPay, calls, txn, initial>>

\* query(): the statement succeeds or raises, and finally releases the client
Db_Query(p) ==
    /\ pc[p] = "db_query"
    /\ \E ok \in BOOLEAN :
          /\ txn' = [txn EXCEPT ![p] = IF ok THEN <<"QUERY">> ELSE <<>>]
          /\ result' = [result EXCEPT ![p] =
                IF ok THEN Db_Outcome(req[p], NoError, <<>>)
                ELSE Db_Outcome(req[p],
                                [kind |-> "QueryFailed", detail |-> <<>>],
                                <<NewError(<<"QueryFailed">>)>>)]
    /\ clients' = [clients EXCEPT ![p].released = @ + 1]
    /\ req' = [req EXCEPT ![p] = NoRequest]
    /\ Db_Moves(p, "idle", NoError, <<>>)
    /\ UNCHANGED <<products, payments, nextId, product, payment, locks,
                   pendProd, pendPay, calls, initial>>

NextDb ==
    \E p \in Procs :
        \/ calls < MaxOps /\ Db_getClient(p, [op |-> "transaction"], "db_begin")
        \/ calls < MaxOps /\ Db_getClient(p, [op |-> "query"], "db_query")
        \/ Db_Begin(p)
        \/ Db_Callback(p)
        \/ Db_Commit(p)
        \/ Db_Catch(p)
        \/ Db_Release(p)
        \/ Db_Query(p)

SpecDb == Init /\ [][NextDb]_vars

\* ------------------------------------------------------------ properties
RowsWithKey(key) ==
    {id \in DOMAIN payments : payments[id].idempotency_key = key}

RowsOnProduct(productId) ==
    {id \in DOMAIN payments : payments[id].product_id = productId}

Successor ==
    {<<INITIALIZED, USER_SET>>, <<USER_SET, PAYMENT_PROCESSING>>,
     <<PAYMENT_PROCESSING, COMPLETE>>}

AllDone == \A p \in Procs : pc[p] = "idle" /\ result[p] # NoResult

Successes == Cardinality({p \in Procs : result[p].kind = "ok"})

\* C1: under SpecCreate (concurrent createPayment calls with distinct keys on
\* product 1, stock N = initial[1]) the stock is never negative, and when all
\* calls have finished at most N succeeded, every other call failed with
\* OutOfStock or StockDepleted, and the stock is N minus the successes.
C1_NoOversell ==
    /\ products[1].stock_level >= 0
    /\ AllDone =>
          /\ Successes <= initial[1]
          /\ \A p \in Procs :
                result[p].kind \in {"ok", "OutOfStock", "StockDepleted"}
          /\ products[1].stock_level = initial[1] - Successes

C1_Witness ==
    /\ AllDone
    /\ initial[1] > 0
    /\ Successes = initial[1]
    /\ \E p \in Procs : result[p].kind = "OutOfStock"
    /\ products[1].stock_level = 0

\* C2: in every reachable state of Spec (all payment and product operations,
\* any interleaving) every product's committed stock_level is >= 0.
C2_StockNeverNegative ==
    \A id \in DOMAIN products : products[id].stock_level >= 0

C2_Witness ==
    \E p \in Procs, q \in Procs :
        /\ result[p].kind = "CheckViolation"
        /\ result[p].req.op = "updateProduct"
        /\ result[q].kind = "ok"
        /\ result[q].req.op = "createPayment"
        /\ products[result[q].rows[1].product_id].stock_level = 0

\* caller 1 finishes a createPayment call in this step
FinishesCreate ==
    /\ pc[1] \in {"commit", "rollback"}
    /\ pc'[1] = "idle"
    /\ req[1].op = "createPayment"

\* C3: under SpecSeq (one caller, calls one after the other) a createPayment
\* call that directly follows a successful createPayment call with the same
\* request returns the same payment row and changes neither stock nor
\* payments; a createPayment call that inserts a payment decrements the
\* stock of its product by exactly 1.  Together: one decrement for both calls.
C3_SequentialIdempotence ==
    [][ /\ ( /\ FinishesCreate
             /\ result[1].kind = "ok"
             /\ result[1].req.op = "createPayment"
             /\ result[1].req.paymentData = req[1].paymentData )
           => /\ result'[1].kind = "ok"
              /\ result'[1].rows = result[1].rows
              /\ products' = products
              /\ payments' = payments
        /\ ( /\ FinishesCreate
             /\ pendPay[1] # <<>> )
           => LET id == req[1].paymentData.product_id
              IN /\ products'[id].stock_level = products[id].stock_level - 1
                 /\ \A other \in DOMAIN products \ {id} :
                       products'[other] = products[other]
      ]_vars

C3_Witness ==
    /\ pc[1] = "commit"
    /\ req[1].op = "createPayment"
    /\ result[1].kind = "ok"
    /\ result[1].req.op = "createPayment"
    /\ result[1].req.paymentData = req[1].paymentData
    /\ ret[1] = result[1].rows
    /\ pendProd[1] = <<>>
    /\ req[1].paymentData.product_id \in DOMAIN products
    /\ products[req[1].paymentData.product_id].stock_level =
          initial[req[1].paymentData.product_id] - 1

\* C4: under SpecKeys (createPayment calls only, retried and concurrent, any
\* keys) at most one payment row carries a key, the stock a product has lost
\* is exactly the number of payment rows on it (one unit per key that has a
\* row, none for a key without a row), and a call that succeeded for a key
\* returned the row carrying that key.
C4_OneDecrementPerKey ==
    /\ \A key \in Keys : Cardinality(RowsWithKey(key)) <= 1
    /\ \A id \in DOMAIN products :
          initial[id] - products[id].stock_level =
             Cardinality(RowsOnProduct(id))
    /\ \A p \in Procs :
          result[p].kind = "ok" =>
             /\ Len(result[p].rows) = 1
             /\ RowsWithKey(result[p].req.paymentData.idempotency_key) =
                   {result[p].rows[1].id}
             /\ payments[result[p].rows[1].id] = result[p].rows[1]

C4_Witness ==
    \E p \in Procs, q \in Procs :
        /\ result[p].kind = "ok"
        /\ result[q].kind = "UniqueViolation"
        /\ result[p].req.paymentData.idempotency_key =
              result[q].req.paymentData.idempotency_key
        /\ products[result[p].rows[1].product_id].stock_level =
              initial[result[p].rows[1].product_id] - 1

\* C5: a createPayment call that did not find its key at the idempotency read
\* never raises an error while a committed payment with its key exists: it
\* returns that payment instead.
C5_DuplicateReturnsExisting ==
    \A p \in Procs :
        ~ ( /\ req[p].op = "createPayment"
            /\ pc[p] = "rollback"
            /\ SelectByKey(req[p].paymentData.idempotency_key) # <<>> )

\* C6: an updatePaymentStatus call that has read the payment with status c
\* and was asked for status s goes on to the UPDATE and COMMIT exactly when
\* (c, s) is one of the three successor pairs; otherwise it raises
\* InvalidTransition.  A finished call is ok, NotFound or InvalidTransition.
C6_TransitionTable ==
    /\ \A p \in Procs :
          (req[p].op = "updatePaymentStatus" /\ payment[p] # <<>>) =>
             IF <<payment[p][1].status, req[p].status>> \in Successor
             THEN pc[p] \in {"us_update", "commit"} /\ err[p] = NoError
             ELSE pc[p] = "rollback" /\ err[p].kind = "InvalidTransition"
    /\ \A p \in Procs :
          result[p].req.op = "updatePaymentStatus" =>
             /\ result[p].kind \in {"ok", "NotFound", "InvalidTransition"}
             /\ result[p].kind = "InvalidTransition" =>
                   /\ result[p].detail[2] = result[p].req.status
                   /\ <<result[p].detail[1], result[p].detail[2]>>
                         \notin Successor
             /\ (result[p].kind = "ok" /\ result[p].rows # <<>>) =>
                   result[p].rows[1].status = result[p].req.status

C6_Witness ==
    \E p \in Procs, q \in Procs :
        /\ req[p].op = "updatePaymentStatus"
        /\ pc[p] = "commit"
        /\ payment[p][1].status = PAYMENT_PROCESSING
        /\ req[p].status = COMPLETE
        /\ result[q].req.op = "updatePaymentStatus"
        /\ result[q].kind = "InvalidTransition"
        /\ result[q].detail[1] = result[q].detail[2]

\* C7: every committed change of a payment's status goes from a status to
\* its single permitted successor.
C7_StatusOnlyAdvances ==
    [][ \A id \in DOMAIN payments :
           (id \in DOMAIN payments' /\
            payments'[id].status # payments[id].status)
              => <<payments[id].status, payments'[id].status>> \in Successor
      ]_vars

\* C8: once a payment's committed status is complete, no step of a payment
\* operation changes or removes it.
C8_CompleteIsTerminal ==
    [][ \A id \in DOMAIN payments :
           payments[id].status = COMPLETE
              => (id \in DOMAIN payments' /\ payments'[id] = payments[id])
      ]_vars

\* C9: when a cancelPayment call commits on a payment whose committed status
\* is initialized, the stock of the payment's product grows by exactly 1, the
\* payment row is removed, every other product and payment is unchanged, and
\* the call returns the row as it was just before the deletion.
C9_CancelRestoresStock ==
    [][ \A p \in Procs :
           ( /\ pc[p] = "commit"
             /\ pc'[p] = "idle"
             /\ req[p].op = "cancelPayment"
             /\ req[p].paymentId \in DOMAIN payments
             /\ payments[req[p].paymentId].status = INITIALIZED )
           => LET id == req[p].paymentId
                  pid == payments[id].product_id
              IN /\ DOMAIN payments' = DOMAIN payments \ {id}
                 /\ \A other \in DOMAIN payments' :
                       payments'[other] = payments[other]
                 /\ DOMAIN products' = DOMAIN products
                 /\ products'[pid] =
                       [products[pid] EXCEPT !.stock_level = @ + 1]
                 /\ \A other \in DOMAIN products \ {pid} :
                       products'[other] = products[other]
                 /\ result'[p].kind = "ok"
                 /\ result'[p].rows = <<payments[id]>>
                 /\ result'[p].rows[1].status = INITIALIZED
      ]_vars

C9_Witness ==
    \E p \in Procs :
        /\ result[p].req.op = "cancelPayment"
        /\ result[p].kind = "ok"
        /\ result[p].rows[1].id \notin DOMAIN payments
        /\ products[result[p].rows[1].product_id].stock_level =
              initial[result[p].rows[1].product_id] + 1

\* a cancelPayment call past its SELECT: absent payment raises NotFound, a
\* status other than initialized raises NotCancelable naming that status, and
\* in both cases the transaction has written and locked nothing
CancelRejected ==
    \A p \in Procs :
        (req[p].op = "cancelPayment" /\ pc[p] # "cn_select") =>
           IF payment[p] = <<>>
           THEN /\ pc[p] = "rollback"
                /\ err[p] = [kind |-> "NotFound", detail |-> <<"payment">>]
                /\ pendProd[p] = <<>> /\ pendPay[p] = <<>> /\ locks[p] = {}
           ELSE IF payment[p][1].status \in
                      {USER_SET, PAYMENT_PROCESSING, COMPLETE}
           THEN /\ pc[p] = "rollback"
                /\ err[p] = [kind |-> "NotCancelable",
                             detail |-> <<payment[p][1].status>>]
                /\ pendProd[p] = <<>> /\ pendPay[p] = <<>> /\ locks[p] = {}
           ELSE pc[p] # "rollback"

\* C10: cancelPayment on a payment read as user_set, payment_processing or
\* complete fails with NotCancelable naming that status, on an absent id with
\* NotFound; the failing call leaves products and payments unchanged.
C10_CancelRejected ==
    [][ /\ CancelRejected'
        /\ \A p \in Procs :
              (pc[p] = "rollback" /\ pc'[p] = "idle" /\
               req[p].op = "cancelPayment")
                 => /\ products' = products
                    /\ payments' = payments
                    /\ result'[p].kind = err[p].kind
                    /\ result'[p].detail = err[p].detail
      ]_vars

C10_Witness ==
    \E p \in Procs, q \in Procs :
        /\ result[p].req.op = "cancelPayment"
        /\ result[p].kind = "NotCancelable"
        /\ result[p].detail = <<COMPLETE>>
        /\ result[q].req.op = "cancelPayment"
        /\ result[q].kind = "NotFound"

\* the committed tables do not change in this step
TablesUnchanged == products' = products /\ payments' = payments

\* C11: Database.transaction issues BEGIN before any statement of the unit
\* of work; when the unit completes it issues COMMIT and the call returns the
\* unit's result value; when the unit raises it issues ROLLBACK and never
\* COMMIT, and none of the unit's pending writes reaches the committed tables.
C11_TransactionProtocol ==
    [][ \A p \in Procs :
           /\ pc'[p] # "idle" => txn'[p] = <<"BEGIN">>
           /\ (err'[p] # NoError) = (pc'[p] = "rollback")
           /\ (pc[p] = "commit" /\ pc'[p] = "idle") =>
                 /\ txn'[p] = <<"BEGIN", "COMMIT">>
                 /\ result'[p].kind = "ok"
                 /\ result'[p].rows = ret[p]
           /\ (pc[p] = "rollback" /\ pc'[p] = "idle") =>
                 /\ txn'[p] = <<"BEGIN", "ROLLBACK">>
                 /\ result'[p].kind = err[p].kind
                 /\ result'[p].kind \notin {"ok", "none"}
                 /\ TablesUnchanged
      ]_vars

C11_Witness ==
    \E p \in Procs, q \in Procs :
        /\ txn[p] = <<"BEGIN", "ROLLBACK">>
        /\ result[p].kind = "UniqueViolation"
        /\ txn[q] = <<"BEGIN", "COMMIT">>
        /\ result[q].kind = "ok"
        /\ result[q].req.op = "createPayment"
        /\ result[q].rows # <<>>

\* C12: the committed tables change only in the COMMIT step of a call that
\* ends without error; every step of a call that ends in an error, its
\* ROLLBACK included, leaves products and payments as they are, also when the
\* failing createPayment had already decremented the stock.
C12_FailedCallChangesNothing ==
    [][ /\ ~TablesUnchanged =>
              \E p \in Procs :
                 /\ pc[p] = "commit"
                 /\ pc'[p] = "idle"
                 /\ err[p] = NoError
                 /\ result'[p].kind = "ok"
        /\ \A p \in Procs :
              (pc[p] = "rollback" /\ pc'[p] = "idle" /\ pendProd[p] # <<>>) =>
                 /\ TablesUnchanged
                 /\ products[pendProd[p][1].id].stock_level =
                       pendProd[p][1].row.stock_level + 1
      ]_vars

C12_Witness ==
    \E p \in Procs :
        /\ pc[p] = "rollback"
        /\ req[p].op = "createPayment"
        /\ err[p].kind = "UniqueViolation"
        /\ pendProd[p] # <<>>
        /\ products[req[p].paymentData.product_id].stock_level =
              pendProd[p][1].row.stock_level + 1

\* C13: under SpecScenario, on product 1 with stock 1 and price 10: after
\* the first call P1 exists (initialized, amount 10) and stock is 0; the
\* second call fails with OutOfStock and stock stays 0; the cancellation
\* succeeds, stock is 1 and P1 is gone; the last call creates P3 under a new
\* id and stock is 0.
C13_EndToEnd ==
    pc[1] = "idle" =>
       /\ calls = 1 =>
             /\ result[1].kind = "ok"
             /\ DOMAIN payments = {result[1].rows[1].id}
             /\ payments[result[1].rows[1].id] = result[1].rows[1]
             /\ result[1].rows[1].status = INITIALIZED
             /\ result[1].rows[1].amount = 10
             /\ products[1].stock_level = 0
       /\ calls = 2 =>
             /\ result[1].kind = "OutOfStock"
             /\ Cardinality(DOMAIN payments) = 1
             /\ \A id \in DOMAIN payments : payments[id].idempotency_key = 1
             /\ products[1].stock_level = 0
       /\ calls = 3 =>
             /\ result[1].kind = "ok"
             /\ result[1].rows[1].idempotency_key = 1
             /\ DOMAIN payments = {}
             /\ products[1].stock_level = 1
       /\ calls = 4 =>
             /\ result[1].kind = "ok"
             /\ DOMAIN payments = {result[1].rows[1].id}
             /\ result[1].rows[1].id = 2
             /\ result[1].rows[1].idempotency_key = 3
             /\ result[1].rows[1].status = INITIALIZED
             /\ products[1].stock_level = 0

C13_Witness ==
    /\ pc[1] = "idle"
    /\ calls = 4
    /\ result[1].kind = "ok"
    /\ result[1].req.op = "createPayment"
    /\ products[1].stock_level = 0
    /\ 1 \notin DOMAIN payments

RECURSIVE CompletedUpTo(_)
\* what the payments 1..n add to the completed total, one payment at a time
CompletedUpTo(n) ==
    IF n = 0 THEN 0
    ELSE CompletedUpTo(n - 1) +
         (IF n \in DOMAIN payments /\ payments[n].status = COMPLETE
          THEN payments[n].amount ELSE 0)

\* C14: getTotalCompletedPayments returns the sum of the amounts of exactly
\* the complete payments (the others add nothing), and 0 without an error
\* when no payment is complete.
C14_TotalCompleted ==
    \A p \in Procs :
        result[p].req.op = "getTotalCompletedPayments" =>
           /\ result[p].kind = "ok"
           /\ result[p].rows = <<CompletedUpTo(nextId - 1)>>
           /\ (\A id \in DOMAIN payments : payments[id].status # COMPLETE)
                 => result[p].rows = <<0>>

C14_Witness ==
    \E p \in Procs, q \in Procs :
        /\ result[p].req.op = "getTotalCompletedPayments"
        /\ result[q].req.op = "getTotalCompletedPayments"
        /\ Cardinality(DOMAIN payments) = 2
        /\ payments[1].status = COMPLETE
        /\ payments[2].status = PAYMENT_PROCESSING
        /\ result[p].rows = <<payments[1].amount>>

\* C15: a createPayment call that finds a payment with its key hands that
\* payment to the commit with no lock and no pending write, whatever the
\* stock of the named product and whether or not the product exists, and its
\* commit returns that payment and leaves the tables and the id counter
\* unchanged.
C15_ExistingKeyNoWrite ==
    [][ \A p \in Procs :
           /\ (pc[p] = "cp_existing" /\ pc'[p] # "cp_existing"
                  /\ RowsWithKey(req[p].paymentData.idempotency_key) # {}) =>
                 /\ pc'[p] = "commit"
                 /\ Len(ret'[p]) = 1
                 /\ ret'[p][1].id \in
                       RowsWithKey(req[p].paymentData.idempotency_key)
                 /\ ret'[p][1] = payments[ret'[p][1].id]
                 /\ locks'[p] = {} /\ pendProd'[p] = <<>> /\ pendPay'[p] = <<>>
                 /\ TablesUnchanged /\ nextId' = nextId
           /\ (pc[p] = "commit" /\ pc'[p] = "idle"
                  /\ req[p].op = "createPayment" /\ pendPay[p] = <<>>) =>
                 /\ result'[p].kind = "ok"
                 /\ result'[p].rows = ret[p]
                 /\ ret[p][1].idempotency_key =
                       req[p].paymentData.idempotency_key
                 /\ TablesUnchanged /\ nextId' = nextId ]_vars

C15_Witness ==
    \E p \in Procs, q \in Procs :
        /\ p # q
        /\ result[p].req.op = "createPayment" /\ result[p].kind = "ok"
        /\ result[p].req.paymentData.product_id \notin DOMAIN products
        /\ result[q].req.op = "createPayment" /\ result[q].kind = "ok"
        /\ result[q].req.paymentData.product_id \in DOMAIN products
        /\ products[result[q].req.paymentData.product_id].stock_level = 0
        /\ initial[result[q].req.paymentData.product_id] = 0
        /\ result[p].rows = result[q].rows

\* C16: a createPayment call whose key was not found fails with NotFound
\* when the product is missing and with OutOfStock when the product's stock
\* is <= 0, and with neither when there is stock; such a failed call holds no
\* pending write and its rollback leaves the tables and the id counter
\* unchanged.
C16_NotFoundOutOfStock ==
    [][ \A p \in Procs :
           /\ (pc[p] = "cp_lock" /\ pc'[p] # "cp_lock") =>
                 LET id == req[p].paymentData.product_id IN
                 /\ id \notin DOMAIN products =>
                       pc'[p] = "rollback" /\ err'[p].kind = "NotFound"
                 /\ (id \in DOMAIN products /\ products[id].stock_level <= 0) =>
                       pc'[p] = "rollback" /\ err'[p].kind = "OutOfStock"
                 /\ (id \in DOMAIN products /\ products[id].stock_level > 0) =>
                       pc'[p] = "cp_stock" /\ err'[p] = NoError
                 /\ pendProd'[p] = <<>> /\ pendPay'[p] = <<>>
                 /\ TablesUnchanged /\ nextId' = nextId
           /\ (pc[p] = "rollback" /\ pc'[p] = "idle"
                  /\ req[p].op = "createPayment"
                  /\ err[p].kind \in {"NotFound", "OutOfStock"}) =>
                 /\ result'[p].kind = err[p].kind
                 /\ pendProd[p] = <<>> /\ pendPay[p] = <<>>
                 /\ TablesUnchanged /\ nextId' = nextId ]_vars

C16_Witness ==
    \E p \in Procs, q \in Procs :
        /\ result[p].req.op = "createPayment" /\ result[p].kind = "NotFound"
        /\ result[p].req.paymentData.product_id \notin DOMAIN products
        /\ result[q].req.op = "createPayment" /\ result[q].kind = "OutOfStock"
        /\ products[result[q].req.paymentData.product_id].stock_level = 0
        /\ RowsWithKey(result[p].req.paymentData.idempotency_key) = {}
        /\ RowsWithKey(result[q].req.paymentData.idempotency_key) = {}

\* C17: a payment enters the payments table with status initialized and
\* with the price its transaction read under the product's row lock, which
\* is the product's committed price at that commit; the amount of a stored
\* payment never changes afterwards, whatever happens to the product's
\* price or the payment's status.
C17_AmountSnapshot ==
    [][ /\ \A id \in DOMAIN payments' \ DOMAIN payments :
              /\ payments'[id].status = INITIALIZED
              /\ payments'[id].product_id \in DOMAIN products
              /\ payments'[id].amount =
                    products[payments'[id].product_id].price
              /\ \E p \in Procs :
                    /\ pc[p] = "commit" /\ pc'[p] = "idle"
                    /\ req[p].op = "createPayment"
                    /\ payments'[id].product_id \in locks[p]
                    /\ payments'[id].amount = product[p][1].price
                    /\ result'[p].rows = <<payments'[id]>>
        /\ \A id \in DOMAIN payments \cap DOMAIN payments' :
              payments'[id].amount = payments[id].amount ]_vars

C17_Witness ==
    \E p \in Procs :
        /\ result[p].req.op = "createPayment" /\ result[p].kind = "ok"
        /\ result[p].rows[1].id \in DOMAIN payments
        /\ LET row == payments[result[p].rows[1].id] IN
           /\ row.product_id \in DOMAIN products
           /\ row.status = INITIALIZED
           /\ row.amount = SeedPrice(row.product_id)
           /\ products[row.product_id].price = NewPrice
           /\ row.amount = result[p].rows[1].amount

\* C18: no step of an updatePaymentStatus call, succeeding or failing,
\* changes a product (stock included) or the set of payments, nor any
\* payment other than the addressed one, of which only the status may change.
C18_StatusUpdateFrame ==
    [][ \A p \in Procs :
           LET r == IF req[p].op = "updatePaymentStatus" THEN req[p]
                    ELSE req'[p]
           IN (r.op = "updatePaymentStatus" /\ pc'[p] # pc[p]) =>
                 /\ products' = products
                 /\ DOMAIN payments' = DOMAIN payments
                 /\ pendProd'[p] = <<>> /\ locks'[p] = {}
                 /\ \A id \in DOMAIN payments :
                       /\ id # r.paymentId => payments'[id] = payments[id]
                       /\ [payments'[id] EXCEPT !.status = payments[id].status]
                             = payments[id] ]_vars

C18_Witness ==
    \E p \in Procs, q \in Procs :
        /\ result[p].req.op = "updatePaymentStatus" /\ result[p].kind = "ok"
        /\ result[p].rows # <<>>
        /\ result[p].req.paymentId \in DOMAIN payments
        /\ payments[result[p].req.paymentId].status = result[p].req.status
        /\ result[q].req.op = "updatePaymentStatus"
        /\ result[q].kind = "InvalidTransition"
        /\ Cardinality(DOMAIN payments) = 2
        /\ \A id \in DOMAIN products : products[id].stock_level = 0

\* the valid next statuses of a status, in a list
NextStatuses(status) ==
    IF \E t \in PaymentStatus : <<status, t>> \in Successor
    THEN <<CHOOSE t \in PaymentStatus : <<status, t>> \in Successor>>
    ELSE <<>>

\* C19: an InvalidTransition failure of updatePaymentStatus carries the
\* payment's stored status, the rejected target and the list of all valid
\* next statuses of the stored status (user_set alone for initialized ->
\* complete, none for a complete payment); the call writes nothing, so the
\* stored status is unchanged.
C19_InvalidTransitionError ==
    [][ \A p \in Procs :
           /\ (pc[p] = "us_select" /\ err'[p].kind = "InvalidTransition") =>
                 LET cur == payments[req[p].paymentId].status
                     tgt == req[p].status
                 IN /\ err'[p].detail = <<cur, tgt, NextStatuses(cur)>>
                    /\ <<cur, tgt>> \notin Successor
                    /\ (cur = INITIALIZED /\ tgt = COMPLETE) =>
                          err'[p].detail[3] = <<USER_SET>>
                    /\ cur = COMPLETE => err'[p].detail[3] = <<>>
                    /\ pendPay'[p] = <<>> /\ pendProd'[p] = <<>>
                    /\ TablesUnchanged
           /\ (pc[p] = "rollback" /\ pc'[p] = "idle"
                  /\ err[p].kind = "InvalidTransition") =>
                 /\ result'[p].kind = "InvalidTransition"
                 /\ result'[p].detail = err[p].detail
                 /\ pendPay[p] = <<>>
                 /\ TablesUnchanged ]_vars

C19_Witness ==
    \E p \in Procs, q \in Procs :
        /\ result[p].kind = "InvalidTransition"
        /\ result[p].detail = <<INITIALIZED, COMPLETE, <<USER_SET>>>>
        /\ result[p].req.paymentId \in DOMAIN payments
        /\ payments[result[p].req.paymentId].status = INITIALIZED
        /\ result[q].kind = "InvalidTransition"
        /\ result[q].detail[1] = COMPLETE
        /\ result[q].detail[3] = <<>>
        /\ result[q].req.paymentId \in DOMAIN payments
        /\ payments[result[q].req.paymentId].status = COMPLETE

\* C20: in every reachable committed state of the payments table no two
\* rows carry the same idempotency key.
C20_KeyGloballyUnique ==
    \A a \in DOMAIN payments, b \in DOMAIN payments :
        payments[a].idempotency_key = payments[b].idempotency_key => a = b

C20_Witness ==
    \E p \in Procs, q \in Procs :
        /\ result[p].req.op = "createPayment" /\ result[p].kind = "ok"
        /\ result[q].req.op = "createPayment"
        /\ result[q].kind = "UniqueViolation"
        /\ result[q].req.paymentData.idempotency_key =
              result[p].req.paymentData.idempotency_key
        /\ result[q].req.paymentData.product_id #
              result[p].req.paymentData.product_id
        /\ Cardinality(RowsWithKey(
              result[p].req.paymentData.idempotency_key)) = 1

\* C21: a payment row leaves the payments table only at the commit of a
\* cancelPayment call on that payment, and only while its committed status
\* is initialized.
C21_RemovedOnlyByCancel ==
    [][ \A id \in DOMAIN payments \ DOMAIN payments' :
           /\ payments[id].status = INITIALIZED
           /\ \E p \in Procs :
                 /\ pc[p] = "commit" /\ pc'[p] = "idle"
                 /\ req[p].op = "cancelPayment"
                 /\ req[p].paymentId = id ]_vars

\* C22: a step in which a product leaves the products table is a
\* deleteProduct of that product returning true, and it removes exactly the
\* payments that reference the product, in any status, and nothing else; a
\* deleteProduct returns false exactly when the product is missing, and then
\* changes nothing; no payment ever references a missing product.
C22_DeleteCascades ==
    [][ /\ \A id \in DOMAIN products \ DOMAIN products' :
              /\ DOMAIN products' = DOMAIN products \ {id}
              /\ \A other \in DOMAIN products' :
                    products'[other] = products[other]
              /\ DOMAIN payments' =
                    {x \in DOMAIN payments : payments[x].product_id # id}
              /\ \A x \in DOMAIN payments' : payments'[x] = payments[x]
              /\ \E p \in Procs :
                    result'[p] = [req |-> [op |-> "deleteProduct",
                                           productId |-> id],
                                  kind |-> "ok", rows |-> <<>>,
                                  detail |-> <<TRUE>>,
                                  error |-> NoErrorObject]
        /\ \A p \in Procs :
              (result'[p] # result[p] /\ result'[p].req.op = "deleteProduct") =>
                 LET id == result'[p].req.productId IN
                 /\ result'[p].kind = "ok"
                 /\ result'[p].detail = <<id \in DOMAIN products>>
                 /\ id \notin DOMAIN products'
                 /\ id \notin DOMAIN products => TablesUnchanged
        /\ \A x \in DOMAIN payments' :
              payments'[x].product_id \in DOMAIN products' ]_vars

C22_Witness ==
    \E p \in Procs, q \in Procs :
        /\ result[p].req.op = "deleteProduct" /\ result[p].detail = <<TRUE>>
        /\ result[q].req.op = "deleteProduct" /\ result[q].detail = <<FALSE>>
        /\ result[p].req.productId = 1
        /\ nextId = 2 /\ payments = <<>>
        /\ DOMAIN products = {2}

PaymentOps == {"createPayment", "updatePaymentStatus", "cancelPayment"}

\* C23: a finished payment call that failed on a business rule is answered
\* with its documented status: 404 for a missing payment on the status and
\* cancel routes, 400 for an invalid transition or a payment that cannot be
\* cancelled, 400 for out of stock on creation, and never 500.
C23_BusinessErrorStatus ==
    \A p \in Procs :
        LET o == result[p] IN
        (o.req.op \in PaymentOps /\ o.kind \notin {"ok", "none"}) =>
           /\ (o.req.op \in {"updatePaymentStatus", "cancelPayment"}
                  /\ o.kind = "NotFound") => router(o).status = 404
           /\ o.kind \in {"InvalidTransition", "NotCancelable"} =>
                 router(o).status = 400
           /\ (o.req.op = "createPayment"
                  /\ o.kind \in {"OutOfStock", "StockDepleted"}) =>
                 router(o).status = 400
           /\ o.kind \notin StorageKinds => router(o).status # 500

\* C24: a constraint violation of the store inside a payment call is answered
\* translated: 409 'Duplicate entry' for 23505, 400 'Referenced record not
\* found' for 23503, and never with the store's own message.
C24_StorageErrorTranslated ==
    \A p \in Procs :
        LET o == result[p] IN
        (o.req.op \in PaymentOps /\ o.kind \in StorageKinds) =>
           /\ o.kind = "UniqueViolation" =>
                 /\ router(o).status = 409
                 /\ router(o).body.error = <<"Duplicate entry">>
           /\ o.kind = "ForeignKeyViolation" =>
                 /\ router(o).status = 400
                 /\ router(o).body.error = <<"Referenced record not found">>

\* sub occurs in message as one piece
Contains(message, sub) ==
    \E i \in 0..(Len(message) - Len(sub)) :
        SubSeq(message, i + 1, i + Len(sub)) = sub

C26_SecondCreatorWaits ==
    [][ \A p \in Procs :
           /\ (pc[p] = "cp_lock" /\
               \E q \in Procs \ {p} : req[p].paymentData.product_id \in locks[q])
                 => /\ pc'[p] = "cp_lock"
                    /\ product'[p] = <<>> /\ err'[p] = NoError
                    /\ pendProd'[p] = <<>> /\ pendPay'[p] = <<>>
           /\ (pc[p] = "cp_lock" /\ pc'[p] # "cp_lock"
                  /\ req[p].paymentData.product_id \in DOMAIN products) =>
                 LET id == req[p].paymentData.product_id IN
                 /\ \A q \in Procs \ {p} :
                       /\ id \notin locks[q]
                       /\ pendProd[q] = <<>> \/ pendProd[q][1].id # id
                 /\ product'[p] = <<products[id]>>
                 /\ (pc'[p] = "rollback") = (products[id].stock_level <= 0)
                 /\ (pc'[p] = "cp_stock") = (products[id].stock_level > 0)
           /\ (req[p].op = "createPayment" /\ pendProd[p] # <<>>
                  /\ pc'[p] = "idle") =>
                 LET id == pendProd[p][1].id IN
                 /\ id \in locks[p]
                 /\ pc[p] = "commit" =>
                       products'[id].stock_level = products[id].stock_level - 1
                 /\ pc[p] = "rollback" => products'[id] = products[id] ]_vars

C26_Witness ==
    \E p \in Procs, q \in Procs :
        /\ p # q
        /\ pc[p] = "cp_lock"
        /\ req[p].paymentData.product_id \in locks[q]
        /\ pendProd[q] # <<>>
        /\ pendProd[q][1].id = req[p].paymentData.product_id
        /\ pendProd[q][1].row.stock_level = 0
        /\ pc[q] = "commit"

\* C27: the result of getAllPayments lists every payment once when no
\* status is given and exactly the payments in the given status otherwise,
\* none created later than the one listed before it, each with its own
\* columns and the id, name, description, price and stock level of its
\* product.
C27_ListPayments ==
    \A p \in Procs :
        LET o == result[p] IN
        o.req.op = "getAllPayments" =>
           /\ o.kind = "ok"
           /\ {o.rows[i].id : i \in DOMAIN o.rows} =
                 {id \in DOMAIN payments :
                     o.req.status # <<>> =>
                        payments[id].status = o.req.status[1]}
           /\ \A i, j \in DOMAIN o.rows :
                 /\ o.rows[i].id = o.rows[j].id => i = j
                 /\ i < j => payments[o.rows[i].id].created_at >=
                                payments[o.rows[j].id].created_at
           /\ \A i \in DOMAIN o.rows :
                 LET row == payments[o.rows[i].id]
                     pr == products[row.product_id]
                 IN /\ \A f \in DOMAIN row : o.rows[i][f] = row[f]
                    /\ o.rows[i].product.id = row.product_id
                    /\ o.rows[i].product.name = pr.name
                    /\ o.rows[i].product.description = pr.description
                    /\ o.rows[i].product.price = pr.price
                    /\ o.rows[i].product.stock_level = pr.stock_level

C27_Witness ==
    \E p \in Procs, q \in Procs :
        /\ result[p].req.op = "getAllPayments" /\ result[p].req.status = <<>>
        /\ Len(result[p].rows) = 2
        /\ result[p].rows[1].id = 1 /\ result[p].rows[2].id = 2
        /\ payments[1].created_at > payments[2].created_at
        /\ result[p].rows[1].product.name # result[p].rows[2].product.name
        /\ result[q].req.op = "getAllPayments"
        /\ result[q].req.status = <<USER_SET>>
        /\ Len(result[q].rows) = 1

\* C28: when updatePaymentStatus issues its UPDATE or cancelPayment its
\* DELETE, the payment row exists and its committed status is the status
\* that call read in its own SELECT.
C28_WriteOnValidatedStatus ==
    [][ \A p \in Procs :
           (pc[p] \in {"us_update", "cn_delete"} /\ pc'[p] = "commit") =>
              /\ req[p].paymentId \in DOMAIN payments
              /\ payments[req[p].paymentId].status = payment[p][1].status
      ]_vars

\* C29: a cancelPayment call that commits a stock restoration or a deletion
\* does so on a payment whose committed status is initialized.
C29_CancelOnlyInitialized ==
    [][ \A p \in Procs :
           ( /\ pc[p] = "commit" /\ pc'[p] = "idle"
             /\ req[p].op = "cancelPayment"
             /\ pendProd[p] # <<>> \/ pendPay[p] # <<>> ) =>
              /\ req[p].paymentId \in DOMAIN payments
              /\ payments[req[p].paymentId].status = INITIALIZED ]_vars

\* C30: a finished updatePaymentStatus call either returned one payment row
\* whose status is the requested status, or failed with NotFound or
\* InvalidTransition.
C30_UpdateReturnsPayment ==
    \A p \in Procs :
        LET o == result[p] IN
        o.req.op = "updatePaymentStatus" =>
           \/ /\ o.kind = "ok"
              /\ Len(o.rows) = 1
              /\ o.rows[1].id = o.req.paymentId
              /\ o.rows[1].status = o.req.status
           \/ o.kind \in {"NotFound", "InvalidTransition"}

\* C31: of the finished cancelPayment calls on one payment at most one
\* succeeded, every other one failed with NotFound, and the stock of the
\* payment's product never exceeds its initial stock.
C31_OneCancelSucceeds ==
    /\ \A p \in Procs, q \in Procs :
          ( /\ p # q
            /\ result[p].req.op = "cancelPayment" /\ result[p].kind = "ok"
            /\ result[q].req.op = "cancelPayment"
            /\ result[q].req.paymentId = result[p].req.paymentId )
             => result[q].kind = "NotFound"
    /\ \A id \in DOMAIN products : products[id].stock_level <= initial[id]

\* C32: with the payment operations alone, on a store that starts without
\* payments, every product's stock_level plus the number of payments that
\* reference it equals the product's initial stock.
C32_ReservationConservation ==
    \A id \in DOMAIN products :
        products[id].stock_level + Cardinality(RowsOnProduct(id)) = initial[id]

\* the value getTotalCompletedPayments returns in the current committed state
TotalCompleted == parseFloat(COALESCE(SUM(WhereStatus(COMPLETE)), 0))

\* C38: with the payment operations alone, no step makes the value of
\* getTotalCompletedPayments smaller.
C38_TotalNeverDecreases ==
    [][ TotalCompleted' >= TotalCompleted ]_vars

\* C33: the guarded decrement of a createPayment call always finds its row:
\* the product is still there with the stock the locked SELECT read, which is
\* > 0, so the call goes on to its INSERT; no call ever fails with
\* StockDepleted.
C33_DepletedUnreachable ==
    [][ \A p \in Procs :
           /\ (pc[p] = "cp_stock" /\ pc'[p] # "cp_stock") =>
                 LET id == req[p].paymentData.product_id IN
                 /\ id \in DOMAIN products
                 /\ products[id] = product[p][1]
                 /\ products[id].stock_level > 0
                 /\ pc'[p] = "cp_insert"
                 /\ pendProd'[p][1].row.stock_level =
                       products[id].stock_level - 1
           /\ err'[p].kind # "StockDepleted"
           /\ result'[p].kind # "StockDepleted" ]_vars

C33_Witness ==
    \E p \in Procs, q \in Procs :
        /\ pc[p] = "cp_insert"
        /\ pendProd[p] # <<>>
        /\ pendProd[p][1].row.stock_level = 0
        /\ pc[q] = "cp_lock"
        /\ req[q].paymentData.product_id = pendProd[p][1].id
        /\ req[q].paymentData.idempotency_key #
              req[p].paymentData.idempotency_key

\* C34: a step of the payment operations leaves every product in place with
\* every column but stock_level unchanged, and changes a stock_level only
\* at the commit of a createPayment call, by exactly -1 from a stock > 0, or
\* at the commit of a cancelPayment call, by exactly +1.
C34_RelativeStockSteps ==
    [][ /\ DOMAIN products' = DOMAIN products
        /\ \A id \in DOMAIN products :
              /\ [products'[id] EXCEPT !.stock_level = products[id].stock_level]
                    = products[id]
              /\ products'[id].stock_level # products[id].stock_level =>
                    \E p \in Procs :
                       /\ pc[p] = "commit" /\ pc'[p] = "idle"
                       /\ \/ /\ req[p].op = "createPayment"
                             /\ req[p].paymentData.product_id = id
                             /\ products[id].stock_level > 0
                             /\ products'[id].stock_level =
                                   products[id].stock_level - 1
                          \/ /\ req[p].op = "cancelPayment"
                             /\ payment[p][1].product_id = id
                             /\ products'[id].stock_level =
                                   products[id].stock_level + 1
        /\ \A p \in Procs :
              (pc[p] = "commit" /\ pc'[p] = "idle" /\ pendProd[p] # <<>>) =>
                 products'[pendProd[p][1].id].stock_level #
                    products[pendProd[p][1].id].stock_level ]_vars

C34_Witness ==
    \E p \in Procs, q \in Procs :
        /\ result[p].req.op = "createPayment" /\ result[p].kind = "ok"
        /\ result[q].req.op = "cancelPayment" /\ result[q].kind = "ok"
        /\ result[p].req.paymentData.product_id = 2
        /\ result[p].rows[1].product_id = 2
        /\ result[q].rows[1].product_id = 1
        /\ products[2].stock_level = initial[2] - 1
        /\ products[1].stock_level = initial[1] + 1

\* caller q has a createPayment or cancelPayment call in flight on product id
InFlightOn(q, id) ==
    /\ pc[q] # "idle"
    /\ \/ req[q].op = "createPayment" /\ req[q].paymentData.product_id = id
       \/ /\ req[q].op = "cancelPayment"
          /\ req[q].paymentId \in DOMAIN payments
          /\ payments[req[q].paymentId].product_id = id

\* C35: while a createPayment or cancelPayment call on a product is in
\* flight, the product's stock changes only by the relative step of a payment
\* commit (-1 or +1), never by a write of an absolute value.
C35_NoBlindOverwrite ==
    [][ \A id \in DOMAIN products :
           ( /\ \E q \in Procs : InFlightOn(q, id)
             /\ id \in DOMAIN products'
             /\ products'[id].stock_level # products[id].stock_level ) =>
              \E p \in Procs :
                 /\ pc[p] = "commit" /\ pc'[p] = "idle"
                 /\ pendProd[p] # <<>> /\ pendProd[p][1].id = id
                 /\ products'[id].stock_level - products[id].stock_level
                       \in {0 - 1, 1} ]_vars

\* the last call of q was a successful cancellation of a payment with key
Cancelled(q, key) ==
    /\ result[q].req.op = "cancelPayment"
    /\ result[q].kind = "ok"
    /\ result[q].rows # <<>>
    /\ result[q].rows[1].idempotency_key = key

\* C39: a createPayment call that reuses the key of a payment a finished
\* cancelPayment has removed does not find that payment: when no other payment
\* carries the key its lookup goes on to the product, and it ends either with
\* a new payment (new id, status initialized, stock decremented by 1) or with
\* NotFound or OutOfStock, never with the cancelled payment.
C39_KeyReusableAfterCancel ==
    [][ \A p \in Procs, q \in Procs :
           LET key == req[p].paymentData.idempotency_key IN
           (req[p].op = "createPayment" /\ Cancelled(q, key)) =>
              LET old == result[q].rows[1].id IN
              /\ (pc[p] = "cp_existing" /\ pc'[p] # "cp_existing"
                     /\ RowsWithKey(key) \subseteq {old}) =>
                    /\ pc'[p] = "cp_lock"
                    /\ ret'[p] = <<>>
              /\ (pc[p] = "commit" /\ pc'[p] = "idle") =>
                    /\ result'[p].rows[1].id # old
                    /\ old \notin DOMAIN payments'
                    /\ pendPay[p] # <<>> =>
                          LET new == pendPay[p][1].row IN
                          /\ new.id > old
                          /\ new.id \notin DOMAIN payments
                          /\ payments'[new.id].status = INITIALIZED
                          /\ payments'[new.id].idempotency_key = key
                          /\ products'[new.product_id].stock_level =
                                products[new.product_id].stock_level - 1
              /\ (pc[p] = "rollback" /\ pc'[p] = "idle") =>
                    result'[p].kind \in {"OutOfStock", "NotFound"} ]_vars

C39_Witness ==
    /\ pc[1] = "commit"
    /\ req[1].op = "createPayment"
    /\ Cancelled(1, req[1].paymentData.idempotency_key)
    /\ result[1].rows[1].id = 1
    /\ pendPay[1] # <<>>
    /\ pendPay[1][1].row.id = 2
    /\ pendPay[1][1].row.idempotency_key = result[1].rows[1].idempotency_key
    /\ payments = <<>>

\* C40: the key lookup of createPayment ignores the other fields of the
\* request: when a payment carries the key, whatever product, method and user
\* the request names, the call returns that payment as stored, with its own
\* product, method and user, and no product's stock changes.
C40_LookupByKeyAlone ==
    [][ \A p \in Procs :
           LET data == req[p].paymentData IN
           /\ (pc[p] = "cp_existing" /\ pc'[p] # "cp_existing") =>
                 \A id \in RowsWithKey(data.idempotency_key) :
                    /\ pc'[p] = "commit"
                    /\ ret'[p] = <<payments[id]>>
           /\ (pc[p] = "commit" /\ pc'[p] = "idle"
                  /\ req[p].op = "createPayment"
                  /\ RowsWithKey(data.idempotency_key) # {}) =>
                 \A id \in RowsWithKey(data.idempotency_key) :
                    /\ result'[p].rows = <<payments'[id]>>
                    /\ payments'[id] = payments[id]
                    /\ result'[p].rows[1].product_id = payments[id].product_id
                    /\ result'[p].rows[1].payment_method =
                          payments[id].payment_method
                    /\ result'[p].rows[1].user_id = payments[id].user_id
                    /\ products' = products ]_vars

C40_Witness ==
    /\ result[1].req.op = "createPayment" /\ result[1].kind = "ok"
    /\ result[1].rows[1].product_id # result[1].req.paymentData.product_id
    /\ result[1].rows[1].payment_method #
          result[1].req.paymentData.payment_method
    /\ result[1].rows[1].user_id # result[1].req.paymentData.user_id
    /\ result[1].req.paymentData.product_id \in DOMAIN products
    /\ \A id \in DOMAIN products :
          products[id].stock_level = initial[id] /\ products[id].stock_level > 0

\* C36: under fair scheduling every createPayment, updatePaymentStatus and
\* cancelPayment call that has started eventually finishes, with a result or
\* an error: no call waits forever.
C36_EveryCallCompletes ==
    \A p \in Procs : (pc[p] # "idle") ~> (pc[p] = "idle")

C36_Witness ==
    \E p \in Procs, q \in Procs :
        /\ pc[p] = "cp_insert"
        /\ locks[p] # {}
        /\ KeyWriteInFlight(p, req[p].paymentData.idempotency_key)
        /\ pc[q] = "commit"
        /\ locks[q] # {}

\* C37: Database.transaction and Database.query hand the client they acquired
\* back to the pool exactly once on every path (the unit of work succeeds or
\* raises, COMMIT fails, ROLLBACK fails): a caller never has released more
\* than it acquired, and a caller with no operation in flight has no client
\* checked out.
C37_ClientReleasedOnce ==
    \A p \in Procs :
        /\ clients[p].released <= clients[p].acquired
        /\ clients[p].acquired <= 1
        /\ pc[p] = "idle" => clients[p].released = clients[p].acquired
        /\ pc[p] # "idle" => clients[p].acquired = 1 /\ clients[p].released = 0

C37_Witness ==
    \E p \in Procs, q \in Procs :
        /\ pc[p] = "idle" /\ pc[q] = "idle"
        /\ result[p].req.op = "transaction"
        /\ result[p].kind = "RollbackFailed"
        /\ result[q].req.op = "transaction"
        /\ result[q].kind = "CommitFailed"
        /\ txn[q] = <<"BEGIN", "ROLLBACK">>
        /\ clients[p] = [acquired |-> 1, released |-> 1]
        /\ clients[q] = [acquired |-> 1, released |-> 1]

====
